---- MODULE Spec2Model ----
(***************************************************************************)
(* A model of the configuration store of config_coordination:              *)
(* FileConfigManager (file_config.py), AdvancedConfigManager               *)
(* (advanced_config.py) and OptimizedFileConfigManager                     *)
(* (performance_optimization.py).                                          *)
(*                                                                         *)
(* Python dictionaries and lists are objects: dict.copy() and dict.update()*)
(* are shallow, so a nested mapping can be shared by a cached document, a  *)
(* history snapshot and a merge result.  The model therefore keeps a heap  *)
(* of objects and documents hold references into it; a file on disk holds  *)
(* the serialized tree (no sharing survives json.dump / json.load).        *)
(*                                                                         *)
(* A method is an operator from the store to the store and the value it    *)
(* returns; its statements are local operators, each taking what the       *)
(* statement before it left behind.                                        *)
(***************************************************************************)
EXTENDS Integers, Sequences, FiniteSets, TLC

VARIABLES
  manager,          \* the class of the store object
  default_format,   \* self.default_format
  heap,             \* the Python objects reachable from the store or its caller
  disk,             \* self.config_dir: <<name, ext>> -> the file (data, mtime)
  config_cache,     \* self.config_cache: name -> document
  optimized_cache,  \* self.optimized_cache.cache (OrderedDict, oldest first)
  config_history,   \* self.config_history: name -> list of history entries
  now,              \* the wall clock read by datetime.now()
  ret,              \* what the last call returned to its caller (or raised)
  last,             \* the last call and its arguments
  calls,            \* the number of calls made so far
  watcher_objects,  \* the ConfigWatcher objects ever made, by identity
  watchers,         \* self.watchers: the list of watchers (their identities)
  watch_thread,     \* self._watch_thread: 0 for None, else a thread
  watch_stop_event, \* self._watch_stop_event.is_set()
  threads,          \* the poll threads ever made: where each is in _watch_loop
  callers,          \* the threads that call the store: where each is in watch_config
  invoked,          \* <<watcher, mtime>> -> how often its callback was called for it
  subscriptions,    \* ConfigCoordinationAPI.subscriptions: subscriber_id -> subscription
  change_log,       \* ConfigCoordinationAPI.change_log
  notified,         \* <<subscriber_id, name, mtime>> -> how often its callback was called
  services,         \* ServiceRegistry.services: the records, in the order of the dict
  metadata_objects, \* the metadata dicts of the records and of their callers, by identity
  registry_file,    \* the file at ServiceRegistry.registry_file
  heartbeat_timeout, \* ServiceRegistry.heartbeat_timeout
  saves,            \* how often save_registry has written the file
  cache,            \* OptimizedConfigCache.cache: the entries, least recently used first
  memory_usage,     \* OptimizedConfigCache.memory_usage
  stats,            \* OptimizedConfigCache.stats
  max_memory_bytes, \* OptimizedConfigCache.max_memory_bytes
  max_entries,      \* OptimizedConfigCache.max_entries
  recency           \* the keys ever put, the one touched last (by a put or a hit) last

\* the state of the change watcher
watchVars == <<watcher_objects, watchers, watch_thread, watch_stop_event, threads,
               callers, invoked>>

\* the state of the subscriptions of a ConfigCoordinationAPI
apiVars == <<subscriptions, change_log, notified>>

\* the state of a ServiceRegistry
regVars == <<services, metadata_objects, registry_file, heartbeat_timeout, saves>>

\* the state of an OptimizedConfigCache on its own
cacheVars == <<cache, memory_usage, stats, max_memory_bytes, max_entries, recency>>

vars == <<manager, default_format, heap, disk, config_cache, optimized_cache,
          config_history, now, ret, last, calls, watchVars, apiVars, regVars,
          cacheVars>>

-----------------------------------------------------------------------------
(* Bounds of the model.                                                    *)

\* the clock takes the values 0..MaxNow
MaxNow == 2
\* calls made to one store
MaxCalls == 3
\* ticks of the clock per unit of the backup-name stamp (strftime truncates)
TicksPerStamp == 2
\* history-aware saves made in the history specification (more than max_history)
MaxAppends == 52
\* poll threads ever started by one store
MaxThreads == 2
\* calls made to one registry
MaxRegistryCalls == 2
\* calls made to one registry that is also read
MaxReads == 2
\* calls made to one cache
MaxCacheCalls == 4
\* gets and puts made to one cache of small values
MaxLRUCalls == 5

-----------------------------------------------------------------------------
(* Values.  A scalar carries its type; a dict or a list on the heap is     *)
(* named by a reference; a serialized document is a tree of dicts/lists.   *)

IntVal(n) == [t |-> "int", v |-> n]

Str(x) == [t |-> "str", v |-> x]

\* datetime.now().isoformat()
Time(n) == [t |-> "time", v |-> n]

Ref(i) == [t |-> "ref", v |-> i]

Dict(f) == [t |-> "dict", v |-> f]

List(q) == [t |-> "list", v |-> q]

Tuple(q) == [t |-> "tuple", v |-> q]

None == [t |-> "none", v |-> 0]

Err(x) == [t |-> "err", v |-> x]

Bool(b) == [t |-> "bool", v |-> b]

Path(f) == [t |-> "path", v |-> f]

FileNotFoundError == Err("FileNotFoundError")

ValueError == Err("ValueError")

IsRef(val) == val.t = "ref"

\* json.dump / yaml.dump of a value: the tree below it, sharing lost
RECURSIVE Dump(_, _)
Dump(h, val) ==
  IF ~IsRef(val) THEN val
  ELSE [t |-> h[val.v].t, v |-> [k \in DOMAIN h[val.v].v |-> Dump(h, h[val.v].v[k])]]

\* json.load / yaml.safe_load, or a literal the caller builds: every dict
\* and list of the tree becomes a new object
RECURSIVE Parse(_, _), ParseItems(_, _, _)
Parse(h, tree) ==
  IF tree.t \notin {"dict", "list"} THEN [h |-> h, val |-> tree]
  ELSE [h |-> ParseItems(Append(h, tree), Len(h) + 1, DOMAIN tree.v),
        val |-> Ref(Len(h) + 1)]

ParseItems(h, id, todo) ==
  IF todo = {} THEN h
  ELSE LET k == CHOOSE x \in todo : TRUE
           put(r) == [r.h EXCEPT ![id].v[k] = r.val]
       IN ParseItems(put(Parse(h, h[id].v[k])), id, todo \ {k})

\* d[k] = val
DictSet(h, id, k, val) == [h EXCEPT ![id].v = (k :> val) @@ @]

\* d.update(f)
DictUpdate(h, id, f) == [h EXCEPT ![id].v = f @@ @]

\* d.copy(): a new dict with the same items (nested objects shared)
DictCopy(h, id) == Append(h, h[id])

-----------------------------------------------------------------------------
(* Garbage collection.  Objects no root refers to are dropped and the rest *)
(* renumbered in the order a traversal from the roots meets them, so that  *)
(* two heaps that differ only in addresses are one state.                  *)

RECURSIVE SetToSeq(_)
SetToSeq(S) ==
  IF S = {} THEN <<>>
  ELSE LET x == CHOOSE y \in S : TRUE IN <<x>> \o SetToSeq(S \ {x})

RECURSIVE Copy(_, _, _), CopyItems(_, _, _, _)
Copy(old, c, val) ==
  IF ~IsRef(val) \/ val.v \in DOMAIN c.m THEN c
  ELSE CopyItems(old,
                 [h |-> Append(c.h, old[val.v]), m |-> (val.v :> Len(c.h) + 1) @@ c.m],
                 val.v, DOMAIN old[val.v].v)

CopyItems(old, c, oid, todo) ==
  IF todo = {} THEN c
  ELSE LET k == CHOOSE x \in todo : TRUE
       IN CopyItems(old, Copy(old, c, old[oid].v[k]), oid, todo \ {k})

\* the roots lo..hi, one after the other: the first half is traversed to its
\* end, then the second half goes on from what it left (halving keeps the
\* evaluation shallow)
RECURSIVE CopyAll(_, _, _, _, _)
CopyAll(old, c, roots, lo, hi) ==
  IF lo > hi THEN c
  ELSE IF lo = hi THEN Copy(old, c, roots[lo])
  ELSE CHOOSE done \in {CopyAll(old, first, roots, (lo + hi) \div 2 + 1, hi) :
                          first \in {CopyAll(old, c, roots, lo, (lo + hi) \div 2)}} : TRUE

Renamed(m, val) == IF IsRef(val) THEN Ref(m[val.v]) ELSE val

\* the store's state as one record, so that a method is a function of it
Store == [h |-> heap, disk |-> disk, cache |-> config_cache,
          opt |-> optimized_cache, hist |-> config_history, now |-> now]

RECURSIVE Concat(_)
Concat(seqs) == IF seqs = <<>> THEN <<>> ELSE Head(seqs) \o Concat(Tail(seqs))

\* every reference the store or its caller holds: the two caches, the
\* history snapshots and the value the last call returned
Roots(s, r) ==
  LET of(cached, named) ==
        [i \in 1..Len(cached) |-> s.cache[cached[i]]]
        \o [i \in 1..Len(s.opt) |-> s.opt[i].value]
        \o Concat([i \in 1..Len(named) |->
                     [j \in 1..Len(s.hist[named[i]]) |-> s.hist[named[i]][j].config]])
        \o <<r>>
  IN of(SetToSeq(DOMAIN s.cache), SetToSeq(DOMAIN s.hist))

Collect(s, r) ==
  LET renumbered(c) ==
        [s |-> [h |-> [i \in 1..Len(c.h) |->
                         [c.h[i] EXCEPT !.v = [k \in DOMAIN @ |-> Renamed(c.m, @[k])]]],
                disk |-> s.disk,
                now |-> s.now,
                cache |-> [n \in DOMAIN s.cache |-> Renamed(c.m, s.cache[n])],
                opt |-> [i \in DOMAIN s.opt |->
                           [s.opt[i] EXCEPT !.value = Renamed(c.m, @)]],
                hist |-> [n \in DOMAIN s.hist |->
                            [j \in DOMAIN s.hist[n] |->
                               [s.hist[n][j] EXCEPT !.config = Renamed(c.m, @)]]]],
         ret |-> Renamed(c.m, r)]
      traversed(roots) == CopyAll(s.h, [h |-> <<>>, m |-> <<>>], roots, 1, Len(roots))
  IN renumbered(traversed(Roots(s, r)))

-----------------------------------------------------------------------------
(* FileConfigManager                                                       *)

NoFormat == "None"

Extensions == <<"json", "yaml", "yml">>

\* FindConfigFile probing the extensions in the reverse order
FindConfigFile_reversed(d, config_name) ==
  LET found == {i \in DOMAIN Extensions : <<config_name, Extensions[i]>> \in DOMAIN d}
  IN IF found = {} THEN None
     ELSE Path(<<config_name, Extensions[CHOOSE i \in found : \A j \in found : i >= j]>>)

\* the first existing file of a name, in the order json, yaml, yml
\* (_find_config_file and the loops of load_config / delete_config)
FindConfigFile(d, config_name) ==
  LET found == {i \in DOMAIN Extensions : <<config_name, Extensions[i]>> \in DOMAIN d}
  IN IF found = {} THEN None
     ELSE Path(<<config_name, Extensions[CHOOSE i \in found : \A j \in found : i <= j]>>)

\* config_data.setdefault('_metadata', {})
SetDefaultMetadata(h, id) ==
  IF "_metadata" \in DOMAIN h[id].v THEN h
  ELSE DictSet(Append(h, Dict(<<>>)), id, "_metadata", Ref(Len(h) + 1))

FileConfigManager_save_config(s, config_name, config_data, format) ==
  LET fmt == IF format = NoFormat THEN default_format ELSE format
      id == Len(s.h) + 1
      file == <<config_name, IF fmt = "yaml" THEN "yaml" ELSE "json">>
      stamped(h) == DictUpdate(h, h[id].v["_metadata"].v,
                               [created |-> Time(s.now), version |-> Str("1.0"),
                                format |-> Str(fmt)])
      written(h) ==
        [s |-> [s EXCEPT !.h = h,
                         !.disk = (file :> [data |-> Dump(h, Ref(id)), mtime |-> s.now]) @@ @,
                         !.cache = (config_name :> Ref(id)) @@ @],
         ret |-> Path(file)]
  IN written(stamped(SetDefaultMetadata(DictCopy(s.h, config_data.v), id)))

FileConfigManager_load_config(s, config_name, use_cache) ==
  LET cached(p) == [s |-> [s EXCEPT !.h = p.h, !.cache = (config_name :> p.val) @@ @],
                    ret |-> p.val]
      read(config_file) ==
        IF config_file = None THEN [s |-> s, ret |-> FileNotFoundError]
        ELSE cached(Parse(s.h, s.disk[config_file.v].data))
  IN IF use_cache /\ config_name \in DOMAIN s.cache
     THEN [s |-> s, ret |-> s.cache[config_name]]
     ELSE read(FindConfigFile(s.disk, config_name))

\* one name per file with a recognized extension (the caller gets them sorted)
list_configs(s) == [t |-> "names", v |-> [n \in {f[1] : f \in DOMAIN s.disk} |->
                      Cardinality({f \in DOMAIN s.disk : f[1] = n})]]

-----------------------------------------------------------------------------
(* OptimizedConfigCache, as OptimizedFileConfigManager uses it: its limits *)
(* (1000 entries, 100 MB) are out of the store's reach.                    *)

cache_key(config_name) == "config:" \o config_name

OptIndex(opt, key) == {i \in DOMAIN opt : opt[i].key = key}

OptWithout(opt, key) == SelectSeq(opt, LAMBDA e : e.key # key)

\* get: the value, moved to the most-recently-used end, or None
OptimizedConfigCache_get(s, key) ==
  IF OptIndex(s.opt, key) = {} THEN [s |-> s, ret |-> None]
  ELSE LET e == s.opt[CHOOSE i \in OptIndex(s.opt, key) : TRUE]
       IN [s |-> [s EXCEPT !.opt = Append(OptWithout(@, key), e)], ret |-> e.value]

OptimizedConfigCache_put(s, key, value) ==
  [s EXCEPT !.opt = Append(OptWithout(@, key), [key |-> key, value |-> value])]

-----------------------------------------------------------------------------
(* OptimizedFileConfigManager                                              *)

OptimizedFileConfigManager_load_config(s, config_name, use_cache) ==
  LET filled(r) ==
        IF r.ret = FileNotFoundError \/ ~use_cache THEN r
        ELSE [s |-> OptimizedConfigCache_put(r.s, cache_key(config_name), r.ret),
              ret |-> r.ret]
      looked(got) ==
        IF got.ret # None THEN got
        ELSE filled(FileConfigManager_load_config(got.s, config_name, FALSE))
  IN looked(IF use_cache THEN OptimizedConfigCache_get(s, cache_key(config_name))
            ELSE [s |-> s, ret |-> None])

\* optimized_data is a pooled dict filled from config_data: a shallow copy
\* that is cleared again on return, after the cache took its own copy of it
OptimizedFileConfigManager_save_config(s, config_name, config_data, format) ==
  LET optimized_data == Ref(Len(s.h) + 1)
      put(r) ==
        [s |-> OptimizedConfigCache_put([r.s EXCEPT !.h = DictCopy(@, optimized_data.v)],
                                        cache_key(config_name), Ref(Len(r.s.h) + 1)),
         ret |-> r.ret]
  IN put(FileConfigManager_save_config([s EXCEPT !.h = DictCopy(@, config_data.v)],
                                       config_name, optimized_data, format))

\* self.load_config / self.save_config: the method of the object's class
load_config(s, config_name, use_cache) ==
  IF manager = "OptimizedFileConfigManager"
  THEN OptimizedFileConfigManager_load_config(s, config_name, use_cache)
  ELSE FileConfigManager_load_config(s, config_name, use_cache)

save_config(s, config_name, config_data, format) ==
  IF manager = "OptimizedFileConfigManager"
  THEN OptimizedFileConfigManager_save_config(s, config_name, config_data, format)
  ELSE FileConfigManager_save_config(s, config_name, config_data, format)

\* strftime('%Y%m%d_%H%M%S'): the clock truncated to the stamp's resolution
Stamp(time) == ToString(time \div TicksPerStamp)

backup_name(s, config_name, kind) == config_name \o "_" \o kind \o "_" \o Stamp(s.now)

IsEmptyDict(h, val) == DOMAIN h[val.v].v = {}

\* config_data.setdefault('_metadata', {}); config_data['_metadata']['updated'] = now
SetUpdated(h, id, time) ==
  LET set(h4) == DictSet(h4, h4[id].v["_metadata"].v, "updated", Time(time))
  IN set(SetDefaultMetadata(h, id))

\* update_config letting the existing keys win over the updates
update_config_keeping(s, config_name, updates, create_backup) ==
  LET backed_up(l, config_data) ==
        IF create_backup /\ ~IsEmptyDict(l.s.h, config_data)
        THEN save_config(l.s, backup_name(s, config_name, "backup"), config_data, NoFormat).s
        ELSE l.s
      updated(s2, config_data) ==
        save_config([s2 EXCEPT !.h = SetUpdated([@ EXCEPT ![config_data.v].v = @ @@ s2.h[updates.v].v],
                                                config_data.v, s.now)],
                    config_name, config_data, NoFormat)
      loaded(l) ==
        IF l.ret = FileNotFoundError
        THEN updated([l.s EXCEPT !.h = Append(@, Dict(<<>>))], Ref(Len(l.s.h) + 1))
        ELSE updated(backed_up(l, l.ret), l.ret)
  IN loaded(load_config(s, config_name, TRUE))

update_config(s, config_name, updates, create_backup) ==
  LET backed_up(l, config_data) ==
        IF create_backup /\ ~IsEmptyDict(l.s.h, config_data)
        THEN save_config(l.s, backup_name(s, config_name, "backup"), config_data, NoFormat).s
        ELSE l.s
      updated(s2, config_data) ==
        save_config([s2 EXCEPT !.h = SetUpdated(DictUpdate(@, config_data.v, @[updates.v].v),
                                                config_data.v, s.now)],
                    config_name, config_data, NoFormat)
      loaded(l) ==
        IF l.ret = FileNotFoundError
        THEN updated([l.s EXCEPT !.h = Append(@, Dict(<<>>))], Ref(Len(l.s.h) + 1))
        ELSE updated(backed_up(l, l.ret), l.ret)
  IN loaded(load_config(s, config_name, TRUE))

delete_config(s, config_name, create_backup) ==
  LET unlinked(s1, config_file) ==
        IF config_file = None THEN [s |-> s1, ret |-> Bool(FALSE)]
        ELSE [s |-> [s1 EXCEPT
                       !.disk = [f \in DOMAIN @ \ {config_file.v} |-> @[f]],
                       !.cache = [n \in DOMAIN @ \ {config_name} |-> @[n]]],
              ret |-> Bool(TRUE)]
      found(s1) == unlinked(s1, FindConfigFile(s1.disk, config_name))
      backed_up(l) ==
        IF l.ret = FileNotFoundError THEN l.s
        ELSE save_config(l.s, backup_name(s, config_name, "deleted"), l.ret, NoFormat).s
  IN found(IF create_backup THEN backed_up(load_config(s, config_name, TRUE)) ELSE s)

-----------------------------------------------------------------------------
(* AdvancedConfigManager                                                   *)

max_history == 50

\* a cut that keeps the oldest n
FirstN(q, n) == IF Len(q) > n THEN SubSeq(q, 1, n) ELSE q

\* history[-max_history:]
LastN(q, n) == IF Len(q) > n THEN SubSeq(q, Len(q) - n + 1, Len(q)) ELSE q

\* the checksum is a digest of the serialized body: the model keeps the
\* serialized body itself
calculate_checksum(h, config_data) == Dump(h, config_data)

add_to_history(s, config_name, config_data) ==
  LET history_entry == [timestamp |-> Time(s.now),
                        config |-> Ref(Len(s.h) + 1),
                        checksum |-> calculate_checksum(s.h, config_data)]
      old == IF config_name \in DOMAIN s.hist THEN s.hist[config_name] ELSE <<>>
  IN [s EXCEPT !.h = DictCopy(@, config_data.v),
               !.hist = (config_name :> LastN(Append(old, history_entry), max_history)) @@ @]

\* isinstance(value, type_mapping[expected_type]); an unknown type passes
check_type(h, value, expected_type) ==
  LET ty == IF IsRef(value) THEN h[value.v].t ELSE value.t
  IN CASE expected_type = "string" -> ty \in {"str", "time"}
       [] expected_type = "integer" -> ty \in {"int", "bool"}
       [] expected_type = "number" -> ty \in {"int", "bool"}
       [] expected_type = "boolean" -> ty = "bool"
       [] expected_type = "array" -> ty = "list"
       [] expected_type = "object" -> ty = "dict"
       [] OTHER -> TRUE

\* TRUE when _validate_config_schema returns, FALSE when it raises ValueError
validate_config_schema(h, config_data, schema) ==
  /\ \A field \in schema.required : field \in DOMAIN h[config_data.v].v
  /\ \A field \in DOMAIN schema.properties :
       field \in DOMAIN h[config_data.v].v
         => check_type(h, h[config_data.v].v[field], schema.properties[field])

\* schema = None (or any schema that requires and types nothing)
NoSchema == [required |-> {}, properties |-> [field \in {} |-> "string"]]

save_config_with_validation(s, config_name, config_data, schema, format) ==
  IF ~validate_config_schema(s.h, config_data, schema)
  THEN [s |-> s, ret |-> ValueError]
  ELSE save_config(add_to_history(s, config_name, config_data),
                   config_name, config_data, format)

restore_config_version(s, config_name, timestamp) ==
  LET history == IF config_name \in DOMAIN s.hist THEN s.hist[config_name] ELSE <<>>
      hits == {i \in DOMAIN history : history[i].timestamp = timestamp}
  IN IF hits = {} THEN [s |-> s, ret |-> ValueError]
     ELSE save_config(s, config_name,
                      history[CHOOSE i \in hits : \A j \in hits : i <= j].config,
                      NoFormat)

IsDict(h, val) == IsRef(val) /\ h[val.v].t = "dict"

IsList(h, val) == IsRef(val) /\ h[val.v].t = "list"

RECURSIVE deep_merge(_, _, _), deep_merge_items(_, _, _, _)
deep_merge(h, base_dict, update_dict) ==
  deep_merge_items(h, base_dict, update_dict, DOMAIN h[update_dict].v)

deep_merge_items(h, base_dict, update_dict, todo) ==
  IF todo = {} THEN h
  ELSE LET key == CHOOSE k \in todo : TRUE
           value == h[update_dict].v[key]
       IN deep_merge_items(
            IF /\ key \in DOMAIN h[base_dict].v
               /\ IsDict(h, h[base_dict].v[key])
               /\ IsDict(h, value)
            THEN deep_merge(h, h[base_dict].v[key].v, value.v)
            ELSE DictSet(h, base_dict, key, value),
            base_dict, update_dict, todo \ {key})

\* the "append" strategy: list.extend in place when both sides hold a list
RECURSIVE append_items(_, _, _, _)
append_items(h, merged_config, config, todo) ==
  IF todo = {} THEN h
  ELSE LET key == CHOOSE k \in todo : TRUE
           value == h[config].v[key]
       IN append_items(
            IF /\ key \in DOMAIN h[merged_config].v
               /\ IsList(h, h[merged_config].v[key])
               /\ IsList(h, value)
            THEN [h EXCEPT ![h[merged_config].v[key].v].v = @ \o h[value.v].v]
            ELSE DictSet(h, merged_config, key, value),
            merged_config, config, todo \ {key})

\* the loop of merge_configs ending at the first input that is not found
RECURSIVE merge_loop_aborting(_, _, _, _, _)
merge_loop_aborting(s, merged_config, config_names, i, strategy) ==
  LET merged(l) ==
        [l.s EXCEPT !.h =
           CASE strategy = "override" -> DictUpdate(@, merged_config, @[l.ret.v].v)
             [] strategy = "deep_merge" -> deep_merge(@, merged_config, l.ret.v)
             [] strategy = "append" ->
                  append_items(@, merged_config, l.ret.v, DOMAIN @[l.ret.v].v)
             [] OTHER -> @]
      next(l) ==
        IF l.ret = FileNotFoundError THEN l.s
        ELSE merge_loop_aborting(merged(l), merged_config, config_names, i + 1, strategy)
  IN IF i > Len(config_names) THEN s
     ELSE next(load_config(s, config_names[i], TRUE))

\* one pass of the loop of merge_configs over config_names[i..]
RECURSIVE merge_loop(_, _, _, _, _)
merge_loop(s, merged_config, config_names, i, strategy) ==
  LET merged(l) ==
        IF l.ret = FileNotFoundError THEN l.s
        ELSE [l.s EXCEPT !.h =
                CASE strategy = "override" -> DictUpdate(@, merged_config, @[l.ret.v].v)
                  [] strategy = "deep_merge" -> deep_merge(@, merged_config, l.ret.v)
                  [] strategy = "append" ->
                       append_items(@, merged_config, l.ret.v, DOMAIN @[l.ret.v].v)
                  [] OTHER -> @]
  IN IF i > Len(config_names) THEN s
     ELSE merge_loop(merged(load_config(s, config_names[i], TRUE)),
                     merged_config, config_names, i + 1, strategy)

merge_configs(s, config_names, output_name, strategy) ==
  LET merged_config == Len(s.h) + 1
      described(from) ==
        DictUpdate(from.h, from.h[merged_config].v["_metadata"].v,
                   [merged_from |-> from.val,
                    merge_strategy |-> Str(strategy),
                    merged_at |-> Time(s.now)])
      listed(h2) ==
        described(Parse(h2, List([i \in DOMAIN config_names |-> Str(config_names[i])])))
      saved(s1) ==
        save_config([s1 EXCEPT !.h = listed(SetDefaultMetadata(@, merged_config))],
                    output_name, Ref(merged_config), NoFormat)
  IN saved(merge_loop([s EXCEPT !.h = Append(@, Dict(<<>>))], merged_config,
                      config_names, 1, strategy))

\* the value create_config_template gives a field, None when it adds no key
template_value(field) ==
  LET field_type == IF "type" \in DOMAIN field.v THEN field.v["type"].v ELSE "string"
  IN IF "default" \in DOMAIN field.v /\ field.v["default"] # None
     THEN field.v["default"]
     ELSE CASE field_type = "string" -> Str("<" \o field.v["name"].v \o ">")
            [] field_type = "integer" -> IntVal(0)
            [] field_type = "boolean" -> Bool(FALSE)
            [] field_type = "array" -> List(<<>>)
            [] field_type = "object" -> Dict(<<>>)
            [] OTHER -> None

RECURSIVE template_fields(_, _, _)
template_fields(template, fields, i) ==
  IF i > Len(fields) THEN template
  ELSE template_fields(
         IF template_value(fields[i]) = None THEN template
         ELSE (fields[i].v["name"].v :> template_value(fields[i])) @@ template,
         fields, i + 1)

create_config_template(s, template_name, fields) ==
  LET saved(p) ==
        save_config([s EXCEPT !.h = p.h], "template_" \o template_name, p.val, NoFormat)
  IN saved(Parse(s.h, Dict(template_fields(
                             [_template |-> Bool(TRUE),
                              _template_info |-> Dict([name |-> Str(template_name),
                                                       created |-> Time(s.now),
                                                       fields |-> List(fields)])],
                             fields, 1))))

\* a serialized value as == sees it: True and False equal 1 and 0
RECURSIVE Canon(_)
Canon(tree) ==
  IF tree.t = "bool" THEN IntVal(IF tree.v THEN 1 ELSE 0)
  ELSE IF tree.t \in {"dict", "list"}
  THEN [t |-> tree.t, v |-> [k \in DOMAIN tree.v |-> Canon(tree.v[k])]]
  ELSE tree

\* config1[key] != config2[key] compares by value
PyEqual(h, a, b) == Canon(Dump(h, a)) = Canon(Dump(h, b))

\* the four mappings of _calculate_diff; their values are the snapshots' own
calculate_diff(s, config1, config2) ==
  LET c1 == s.h[config1.v].v
      c2 == s.h[config2.v].v
      both == DOMAIN c1 \cap DOMAIN c2
      same == {key \in both : PyEqual(s.h, c1[key], c2[key])}
      built(p) == [s |-> [s EXCEPT !.h = p.h], ret |-> p.val]
  IN built(Parse(s.h, Dict(
       [added |-> Dict([key \in DOMAIN c2 \ DOMAIN c1 |-> c2[key]]),
        removed |-> Dict([key \in DOMAIN c1 \ DOMAIN c2 |-> c1[key]]),
        modified |-> Dict([key \in both \ same |->
                             Dict([old |-> c1[key], new |-> c2[key]])]),
        unchanged |-> Dict([key \in same |-> c1[key]])])))

\* the loop has no break: the last entry of a timestamp is the one taken, and
\* "not config1" is true of None and of an empty mapping alike
get_config_diff(s, config_name, version1, version2) ==
  LET history == IF config_name \in DOMAIN s.hist THEN s.hist[config_name] ELSE <<>>
      entry(version) ==
        LET hits == {i \in DOMAIN history : history[i].timestamp = version}
        IN IF hits = {} THEN None
           ELSE history[CHOOSE i \in hits : \A j \in hits : i >= j].config
      not(config) == config = None \/ IsEmptyDict(s.h, config)
  IN IF not(entry(version1)) \/ not(entry(version2))
     THEN [s |-> s, ret |-> ValueError]
     ELSE calculate_diff(s, entry(version1), entry(version2))

-----------------------------------------------------------------------------
(* The callers: the arguments the operations are tried with.               *)

Names == {"n1"}

Formats == {NoFormat, "json", "yaml"}

\* documents a caller builds
Bodies ==
  { Dict([a |-> Dict([x |-> IntVal(1)])]),
    Dict([a |-> IntVal(1), b |-> IntVal(2)]) }

\* a caller passes a document it builds, or the one its last call returned
Arguments == {[held |-> FALSE, tree |-> b] : b \in Bodies}
             \cup {[held |-> TRUE, tree |-> None]}

CanPass(arg) == arg.held => IsDict(heap, ret)

Passed(s, arg) == IF arg.held THEN [h |-> s.h, val |-> ret] ELSE Parse(s.h, arg.tree)

Updates == { Dict([a |-> Dict([y |-> IntVal(2)])]), Dict([b |-> IntVal(3)]) }

\* the store as the call finds it, dt ticks after the previous call
At(dt) == [Store EXCEPT !.now = @ + dt]

\* the call returns: what nothing refers to any more is collected
Returns(r, call) ==
  \E c \in {Collect(r.s, r.ret)} :
    /\ heap' = c.s.h
    /\ disk' = c.s.disk
    /\ config_cache' = c.s.cache
    /\ optimized_cache' = c.s.opt
    /\ config_history' = c.s.hist
    /\ now' = c.s.now
    /\ ret' = c.ret
    /\ last' = call
    /\ calls' = calls + 1
    /\ UNCHANGED <<cacheVars, regVars, manager, default_format>>

\* a call that has nothing to do with the watchers returns
Return(r, call) == Returns(r, call) /\ UNCHANGED <<watchVars, apiVars>>

IsAdvanced == manager = "AdvancedConfigManager"

-----------------------------------------------------------------------------
(* The actions: one call of a public method each.                          *)

\* the threads that call the store
Callers == {1, 2}

\* a caller that is in no call of watch_config
Idle == [pc |-> "idle"]

AnyIdle == \E c \in Callers : callers[c] = Idle

\* a document somebody put into the directory by hand
HandWritten == Dict([a |-> IntVal(1)])

\* the directory as the constructor finds it: empty, or holding one .yml file
InitialDirs == {<<>>, <<"n1", "yml">> :> [data |-> HandWritten, mtime |-> 0]}

\* a registry file that does not exist
NoRegistryFile == [t |-> "absent"]

\* no ServiceRegistry has been constructed
NoRegistry ==
  /\ services = <<>>
  /\ metadata_objects = <<>>
  /\ registry_file = NoRegistryFile
  /\ heartbeat_timeout = 0
  /\ saves = 0

\* no OptimizedConfigCache has been constructed on its own
NoCache ==
  /\ cache = <<>>
  /\ memory_usage = 0
  /\ stats = [hits |-> 0, misses |-> 0, evictions |-> 0, memory_evictions |-> 0]
  /\ max_memory_bytes = 0
  /\ max_entries = 0
  /\ recency = <<>>

\* the managers, the watcher and the subscriptions as a constructor leaves them
InitManager ==
  /\ default_format \in {"json", "yaml"}
  /\ heap = <<>>
  /\ config_cache = <<>>
  /\ optimized_cache = <<>>
  /\ config_history = <<>>
  /\ now = 0
  /\ ret = None
  /\ last = [op |-> "init"]
  /\ calls = 0
  /\ watcher_objects = <<>>
  /\ watchers = <<>>
  /\ watch_thread = 0
  /\ watch_stop_event = FALSE
  /\ threads = <<>>
  /\ callers = [c \in Callers |-> Idle]
  /\ invoked = <<>>
  /\ subscriptions = <<>>
  /\ change_log = <<>>
  /\ notified = <<>>

InitConfigStore == InitManager /\ NoCache

InitStore == InitConfigStore /\ NoRegistry

Init == manager = "FileConfigManager" /\ disk = <<>> /\ InitStore

InitDir == manager = "FileConfigManager" /\ disk \in InitialDirs /\ InitStore

InitOptimized == manager = "OptimizedFileConfigManager" /\ disk = <<>> /\ InitStore

\* time passes between two calls
Tick ==
  /\ now < MaxNow
  /\ now' = now + 1
  /\ UNCHANGED <<cacheVars, regVars, manager, default_format, heap, disk, config_cache, optimized_cache,
                 config_history, ret, last, calls, watchVars, apiVars>>

SaveConfig(config_name, arg, format, dt) ==
  /\ CanPass(arg)
  /\ \E p \in {Passed(At(dt), arg)} :
       Return(save_config([At(dt) EXCEPT !.h = p.h], config_name, p.val, format),
              [op |-> "save_config", name |-> config_name,
               data |-> Dump(p.h, p.val), format |-> format])

LoadConfig(config_name, use_cache) ==
  Return(load_config(Store, config_name, use_cache),
         [op |-> "load_config", name |-> config_name, use_cache |-> use_cache])

ListConfigs ==
  Return([s |-> Store, ret |-> list_configs(Store)], [op |-> "list_configs"])

UpdateConfig(config_name, updates, create_backup, dt) ==
  \E p \in {Parse(At(dt).h, updates)} :
    Return(update_config([At(dt) EXCEPT !.h = p.h], config_name, p.val, create_backup),
           [op |-> "update_config", name |-> config_name, updates |-> updates,
            create_backup |-> create_backup])

DeleteConfig(config_name, create_backup, dt) ==
  Return(delete_config(At(dt), config_name, create_backup),
         [op |-> "delete_config", name |-> config_name,
          create_backup |-> create_backup])

SaveConfigWithValidation(config_name, arg, schema, format, dt) ==
  /\ IsAdvanced
  /\ CanPass(arg)
  /\ \E p \in {Passed(At(dt), arg)} :
       Return(save_config_with_validation([At(dt) EXCEPT !.h = p.h], config_name,
                                          p.val, schema, format),
              [op |-> "save_config_with_validation", name |-> config_name,
               data |-> Dump(p.h, p.val), schema |-> schema, format |-> format])

RestoreConfigVersion(config_name, timestamp, dt) ==
  /\ IsAdvanced
  /\ Return(restore_config_version(At(dt), config_name, timestamp),
            [op |-> "restore_config_version", name |-> config_name,
             timestamp |-> timestamp])

MergeConfigs(config_names, output_name, strategy, dt) ==
  /\ IsAdvanced
  /\ Return(merge_configs(At(dt), config_names, output_name, strategy),
            [op |-> "merge_configs", names |-> config_names, output |-> output_name,
             strategy |-> strategy])

CreateConfigTemplate(template_name, fields, dt) ==
  /\ IsAdvanced
  /\ Return(create_config_template(At(dt), template_name, fields),
            [op |-> "create_config_template", name |-> template_name,
             fields |-> fields])

GetConfigDiff(config_name, version1, version2) ==
  /\ IsAdvanced
  /\ Return(get_config_diff(Store, config_name, version1, version2),
            [op |-> "get_config_diff", name |-> config_name,
             version1 |-> version1, version2 |-> version2])

-----------------------------------------------------------------------------
(* The change watcher: watch_config, stop_watching and the poll thread.    *)
(* watch_config takes two steps, one up to its test of the poll thread and *)
(* one for _start_watch_thread, so that two callers can both pass the test.*)
(* _watch_loop takes a step at the test of its while, at each turn of its  *)
(* for, at stat(), at the reload and callback, and at each sleep.          *)

\* what a callback does when it is called
Callbacks == {"returns", "raises"}

\* stop_watching() without a name ("if config_name:" takes "" for None too)
NoName == ""

\* a thread made by threading.Thread(target=self._watch_loop) and started
NewThread == [pc |-> "while", alias |-> TRUE, list |-> <<>>, i |-> 0,
              cur |-> 0, mtime |-> 0]

\* thread.is_alive()
is_alive(thread) == threads[thread].pc # "done"

\* the list a for loop of _watch_loop runs over: self.watchers as long as
\* stop_watching(name) has not bound self.watchers to a new list
IteratedList(th) == IF th.alias THEN watchers ELSE th.list

\* the for loop is left: the thread holds no list any more
OutOfFor(th, pc) == [NewThread EXCEPT !.pc = pc]

\* watch_config up to the test of the poll thread (advanced_config.py 156-169)
WatchConfig(c, config_name, callback) ==
  /\ IsAdvanced
  /\ callers[c] = Idle
  /\ UNCHANGED apiVars
  /\ LET config_file == FindConfigFile(disk, config_name)
         call == [op |-> "watch_config", name |-> config_name, callback |-> callback]
     IN IF config_file = None
        THEN /\ Returns([s |-> Store, ret |-> FileNotFoundError], call)
             /\ UNCHANGED watchVars
        ELSE /\ watcher_objects' =
                  Append(watcher_objects,
                         [config_name |-> config_name, callback |-> callback,
                          last_modified |-> disk[config_file.v].mtime, enabled |-> TRUE])
             /\ watchers' = Append(watchers, Len(watcher_objects) + 1)
             /\ UNCHANGED <<watch_thread, watch_stop_event, threads, invoked>>
             /\ IF watch_thread = 0 \/ ~is_alive(watch_thread)
                THEN /\ callers' = [callers EXCEPT ![c] = [pc |-> "start", call |-> call]]
                     /\ UNCHANGED <<cacheVars, regVars, manager, default_format, heap, disk, config_cache,
                                    optimized_cache, config_history, now, ret, last, calls>>
                ELSE /\ Returns([s |-> Store, ret |-> None], call)
                     /\ UNCHANGED callers

\* _start_watch_thread, and watch_config returns
StartWatchThread(c) ==
  /\ callers[c].pc = "start"
  /\ Len(threads) < MaxThreads
  /\ watch_stop_event' = FALSE
  /\ threads' = Append(threads, NewThread)
  /\ watch_thread' = Len(threads) + 1
  /\ callers' = [callers EXCEPT ![c] = Idle]
  /\ Returns([s |-> Store, ret |-> None], callers[c].call)
  /\ UNCHANGED <<watcher_objects, watchers, invoked, apiVars>>

\* stop_watching that leaves the stop event as it is
StopWatching_unsignalled(config_name) ==
  /\ IsAdvanced
  /\ AnyIdle
  /\ watchers' = IF config_name # NoName
                 THEN SelectSeq(watchers,
                                LAMBDA w : watcher_objects[w].config_name # config_name)
                 ELSE <<>>
  /\ threads' = [th \in DOMAIN threads |->
                   IF config_name # NoName
                      /\ threads[th].pc \in {"for", "found", "changed"}
                      /\ threads[th].alias
                   THEN [threads[th] EXCEPT !.alias = FALSE, !.list = watchers]
                   ELSE threads[th]]
  /\ Returns([s |-> Store, ret |-> None], [op |-> "stop_watching", name |-> config_name])
  /\ UNCHANGED <<watcher_objects, watch_thread, watch_stop_event, callers, invoked,
                 apiVars>>

StopWatching(config_name) ==
  /\ IsAdvanced
  /\ AnyIdle
  /\ IF config_name # NoName
     THEN /\ watchers' = SelectSeq(watchers,
                                   LAMBDA w : watcher_objects[w].config_name # config_name)
          /\ threads' = [th \in DOMAIN threads |->
                           IF threads[th].pc \in {"for", "found", "changed"}
                              /\ threads[th].alias
                           THEN [threads[th] EXCEPT !.alias = FALSE, !.list = watchers]
                           ELSE threads[th]]
          /\ UNCHANGED watch_stop_event
     ELSE /\ watchers' = <<>>
          /\ watch_stop_event' = TRUE
          /\ UNCHANGED threads
  /\ Returns([s |-> Store, ret |-> None], [op |-> "stop_watching", name |-> config_name])
  /\ UNCHANGED <<watcher_objects, watch_thread, callers, invoked, apiVars>>

\* a step of a poll thread that touches no document
PollOnly == UNCHANGED <<cacheVars, regVars, manager, default_format, heap, disk, config_cache,
                        optimized_cache, config_history, now, ret, last, calls,
                        watch_thread, watch_stop_event, watchers, callers, apiVars>>

\* while not self._watch_stop_event.is_set(): ... for watcher in self.watchers
PollWhile(th) ==
  /\ threads[th].pc = "while"
  /\ threads' = [threads EXCEPT ![th] =
                   IF watch_stop_event THEN OutOfFor(@, "done")
                   ELSE [NewThread EXCEPT !.pc = "for", !.i = 1]]
  /\ UNCHANGED <<watcher_objects, invoked>>
  /\ PollOnly

\* the next watcher of the list: skipped when disabled or without a file
PollFor(th) ==
  /\ threads[th].pc = "for"
  /\ LET list == IteratedList(threads[th])
         i == threads[th].i
     IN threads' = [threads EXCEPT ![th] =
          IF i > Len(list) THEN OutOfFor(@, "sleep")
          ELSE IF /\ watcher_objects[list[i]].enabled
                  /\ FindConfigFile(disk, watcher_objects[list[i]].config_name) # None
          THEN [@ EXCEPT !.pc = "found", !.i = i + 1, !.cur = list[i]]
          ELSE [@ EXCEPT !.i = i + 1]]
  /\ UNCHANGED <<watcher_objects, invoked>>
  /\ PollOnly

\* config_file.exists() / stat(): a file deleted since it was found makes
\* stat() raise, outside the inner try
PollStat(th) ==
  /\ threads[th].pc = "found"
  /\ LET watcher == watcher_objects[threads[th].cur]
         config_file == FindConfigFile(disk, watcher.config_name)
     IN threads' = [threads EXCEPT ![th] =
          IF config_file = None THEN OutOfFor(@, "backoff")
          ELSE IF disk[config_file.v].mtime > watcher.last_modified
          THEN [@ EXCEPT !.pc = "changed", !.mtime = disk[config_file.v].mtime]
          ELSE [@ EXCEPT !.pc = "for", !.cur = 0]]
  /\ UNCHANGED <<watcher_objects, invoked>>
  /\ PollOnly

\* fnmatch.fnmatch(name, pattern) where case matters: * is any run of
\* characters, ? any one character (no name or pattern here holds a "[")
RECURSIVE fnmatch(_, _)
fnmatch(name, pattern) ==
  IF pattern = "" THEN name = ""
  ELSE IF Head(pattern) = "*"
  THEN \/ fnmatch(name, SubSeq(pattern, 2, Len(pattern)))
       \/ name # "" /\ fnmatch(SubSeq(name, 2, Len(name)), pattern)
  ELSE /\ name # ""
       /\ Head(pattern) \in {"?", Head(name)}
       /\ fnmatch(SubSeq(name, 2, Len(name)), SubSeq(pattern, 2, Len(pattern)))

matches_patterns(config_name, patterns) ==
  \E i \in DOMAIN patterns : fnmatch(config_name, patterns[i])

\* _notify_subscribers without the try around the callback, when the first
\* subscription it visits is one whose callback raises: the loop ends there
notify_subscribers_uncaught(config_name, mtime) ==
  LET matching == {id \in DOMAIN subscriptions :
                     matches_patterns(config_name, subscriptions[id].config_patterns)}
      raising == {id \in matching : subscriptions[id].callback_function = "raises"}
      called == IF raising = {} THEN matching ELSE {CHOOSE id \in raising : TRUE}
      updated == IF raising = {} THEN matching ELSE {}
  IN [change_log |-> Append(change_log, [config_name |-> config_name,
                                         changed_at |-> Time(now),
                                         change_type |-> "modified"]),
      subscriptions |-> [id \in DOMAIN subscriptions |->
                           IF id \in updated
                           THEN [subscriptions[id] EXCEPT !.last_notified = Time(now)]
                           ELSE subscriptions[id]],
      notified |-> [key \in DOMAIN notified \cup {<<id, config_name, mtime>> : id \in called} |->
                      IF key \notin DOMAIN notified THEN 1
                      ELSE IF key[1] \in called /\ key[2] = config_name /\ key[3] = mtime
                      THEN 2
                      ELSE notified[key]]]

\* _notify_subscribers(config_name, config_data), called by the poll thread
\* for the file time mtime: a callback that raises is caught
notify_subscribers(config_name, mtime) ==
  LET matching == {id \in DOMAIN subscriptions :
                     matches_patterns(config_name, subscriptions[id].config_patterns)}
      called == {id \in matching : subscriptions[id].callback_function # "None"}
  IN [change_log |-> Append(change_log, [config_name |-> config_name,
                                         changed_at |-> Time(now),
                                         change_type |-> "modified"]),
      subscriptions |-> [id \in DOMAIN subscriptions |->
                           IF id \in matching
                           THEN [subscriptions[id] EXCEPT !.last_notified = Time(now)]
                           ELSE subscriptions[id]],
      notified |-> [key \in DOMAIN notified \cup {<<id, config_name, mtime>> : id \in called} |->
                      IF key \notin DOMAIN notified THEN 1
                      ELSE IF key[1] \in called /\ key[2] = config_name /\ key[3] = mtime
                      THEN 2
                      ELSE notified[key]]]

\* one more call of a watcher's callback for a modification time (the count
\* tells one call from more than one)
Invoked(inv, watcher, mtime) ==
  IF <<watcher, mtime>> \in DOMAIN inv THEN [inv EXCEPT ![<<watcher, mtime>>] = 2]
  ELSE (<<watcher, mtime>> :> 1) @@ inv

\* the reload and the callback without the inner try: what they raise ends
\* the pass
PollNotify_uncaught(th) ==
  /\ threads[th].pc = "changed"
  /\ LET cur == threads[th].cur
         watcher == watcher_objects[cur]
     IN \E r \in {load_config(Store, watcher.config_name, FALSE)} :
          /\ \E c \in {Collect(r.s, ret)} :
               /\ heap' = c.s.h
               /\ config_cache' = c.s.cache
               /\ optimized_cache' = c.s.opt
               /\ ret' = c.ret
          /\ IF r.ret = FileNotFoundError
             THEN /\ UNCHANGED <<watcher_objects, invoked, apiVars>>
                  /\ threads' = [threads EXCEPT ![th] = OutOfFor(@, "backoff")]
             ELSE /\ invoked' = Invoked(invoked, cur, threads[th].mtime)
                  /\ watcher_objects' =
                       IF watcher.callback = "raises" THEN watcher_objects
                       ELSE [watcher_objects EXCEPT ![cur].last_modified = threads[th].mtime]
                  /\ threads' = [threads EXCEPT ![th] =
                                   IF watcher.callback = "raises" THEN OutOfFor(@, "backoff")
                                   ELSE [@ EXCEPT !.pc = "for", !.cur = 0, !.mtime = 0]]
                  /\ IF watcher.callback = "notify"
                     THEN \E api \in {notify_subscribers(watcher.config_name,
                                                          threads[th].mtime)} :
                            /\ subscriptions' = api.subscriptions
                            /\ change_log' = api.change_log
                            /\ notified' = api.notified
                     ELSE UNCHANGED apiVars
  /\ UNCHANGED <<cacheVars, regVars, manager, default_format, disk, config_history, now, last, calls,
                 watch_thread, watch_stop_event, watchers, callers>>

\* new_config = self.load_config(name, use_cache=False); callback(...);
\* watcher.last_modified = current_mtime, all inside the inner try
PollNotify(th) ==
  /\ threads[th].pc = "changed"
  /\ LET cur == threads[th].cur
         watcher == watcher_objects[cur]
     IN \E r \in {load_config(Store, watcher.config_name, FALSE)} :
          /\ \E c \in {Collect(r.s, ret)} :
               /\ heap' = c.s.h
               /\ config_cache' = c.s.cache
               /\ optimized_cache' = c.s.opt
               /\ ret' = c.ret
          /\ IF r.ret = FileNotFoundError
             THEN UNCHANGED <<watcher_objects, invoked, apiVars>>
             ELSE /\ invoked' = Invoked(invoked, cur, threads[th].mtime)
                  /\ watcher_objects' =
                       IF watcher.callback = "raises" THEN watcher_objects
                       ELSE [watcher_objects EXCEPT ![cur].last_modified = threads[th].mtime]
                  /\ IF watcher.callback = "notify"
                     THEN \E api \in {notify_subscribers(watcher.config_name,
                                                          threads[th].mtime)} :
                            /\ subscriptions' = api.subscriptions
                            /\ change_log' = api.change_log
                            /\ notified' = api.notified
                     ELSE UNCHANGED apiVars
  /\ threads' = [threads EXCEPT ![th] = [@ EXCEPT !.pc = "for", !.cur = 0, !.mtime = 0]]
  /\ UNCHANGED <<cacheVars, regVars, manager, default_format, disk, config_history, now, last, calls,
                 watch_thread, watch_stop_event, watchers, callers>>

\* time.sleep(2) at the end of a pass, time.sleep(5) after a failed pass
PollSleep(th) ==
  /\ threads[th].pc \in {"sleep", "backoff"}
  /\ threads' = [threads EXCEPT ![th].pc = "while"]
  /\ UNCHANGED <<watcher_objects, invoked>>
  /\ PollOnly

\* the watch_config calls of one subscribe without the try: the first
\* FileNotFoundError ends the loop
RECURSIVE watch_patterns_uncaught(_, _, _)
watch_patterns_uncaught(w, config_patterns, i) ==
  LET config_file == FindConfigFile(disk, config_patterns[i])
      started(w2) ==
        IF w2.thread = 0 \/ w2.threads[w2.thread].pc = "done"
        THEN [w2 EXCEPT !.stop = FALSE, !.threads = Append(@, NewThread),
                        !.thread = Len(w2.threads) + 1]
        ELSE w2
      appended ==
        [w EXCEPT !.objects = Append(@, [config_name |-> config_patterns[i],
                                         callback |-> "notify",
                                         last_modified |-> disk[config_file.v].mtime,
                                         enabled |-> TRUE]),
                  !.watchers = Append(@, Len(w.objects) + 1)]
  IN IF i > Len(config_patterns) \/ config_file = None THEN w
     ELSE watch_patterns_uncaught(started(appended), config_patterns, i + 1)

\* the watch_config calls of one subscribe, for config_patterns[i..]: each
\* pattern is taken for a document name, and FileNotFoundError is passed over
RECURSIVE watch_patterns(_, _, _)
watch_patterns(w, config_patterns, i) ==
  LET config_file == FindConfigFile(disk, config_patterns[i])
      started(w2) ==
        IF w2.thread = 0 \/ w2.threads[w2.thread].pc = "done"
        THEN [w2 EXCEPT !.stop = FALSE, !.threads = Append(@, NewThread),
                        !.thread = Len(w2.threads) + 1]
        ELSE w2
      appended ==
        [w EXCEPT !.objects = Append(@, [config_name |-> config_patterns[i],
                                         callback |-> "notify",
                                         last_modified |-> disk[config_file.v].mtime,
                                         enabled |-> TRUE]),
                  !.watchers = Append(@, Len(w.objects) + 1)]
  IN IF i > Len(config_patterns) THEN w
     ELSE watch_patterns(IF config_file = None THEN w ELSE started(appended),
                         config_patterns, i + 1)

\* subscribe_to_config_changes, by a caller no other call interleaves with
Subscribe(subscriber_id, config_patterns, callback_function) ==
  /\ IsAdvanced
  /\ AnyIdle
  /\ subscriptions' =
       (subscriber_id :> [subscriber_id |-> subscriber_id,
                          config_patterns |-> config_patterns,
                          callback_url |-> "None",
                          callback_function |-> callback_function,
                          created_at |-> Time(now),
                          last_notified |-> Time(now)]) @@ subscriptions
  /\ \E w \in {watch_patterns([objects |-> watcher_objects, watchers |-> watchers,
                                thread |-> watch_thread, stop |-> watch_stop_event,
                                threads |-> threads], config_patterns, 1)} :
       /\ Len(w.threads) <= MaxThreads
       /\ watcher_objects' = w.objects
       /\ watchers' = w.watchers
       /\ watch_thread' = w.thread
       /\ watch_stop_event' = w.stop
       /\ threads' = w.threads
  /\ Returns([s |-> Store, ret |-> Bool(TRUE)],
             [op |-> "subscribe_to_config_changes", subscriber_id |-> subscriber_id,
              config_patterns |-> config_patterns,
              callback_function |-> callback_function])
  /\ UNCHANGED <<callers, invoked, change_log, notified>>

-----------------------------------------------------------------------------
(* The service registry.  A record is a ServiceInfo; its metadata is None  *)
(* or a reference to a dict of metadata_objects, so that a dict the caller *)
(* passed to register_service is the very dict the record holds.           *)

AttributeError == Err("AttributeError")

\* the registry as a call finds it
Registry == [services |-> services, objects |-> metadata_objects,
             file |-> registry_file, saves |-> saves, now |-> now]

\* the position of name among the keys of self.services, 0 when it is no key
ServiceIndex(svcs, name) ==
  IF \E i \in DOMAIN svcs : svcs[i].name = name
  THEN CHOOSE i \in DOMAIN svcs : svcs[i].name = name
  ELSE 0

\* self.services[name] = service_info: a key that exists keeps its place
ServicePut(svcs, service_info) ==
  LET i == ServiceIndex(svcs, service_info.name)
  IN IF i = 0 THEN Append(svcs, service_info) ELSE [svcs EXCEPT ![i] = service_info]

\* bool(metadata) of an argument: None and the empty dict are false
Truthy(objects, metadata) ==
  IF metadata.t = "dict" THEN DOMAIN metadata.v # {}
  ELSE IF metadata.t = "ref" THEN DOMAIN objects[metadata.v] # {}
  ELSE FALSE

\* dataclasses.asdict(service): the metadata is copied
asdict(objects, service) ==
  [service EXCEPT !.metadata = IF IsRef(@) THEN Dict(objects[@.v]) ELSE @]

\* json.dump of a value of a metadata dict, as json.load reads it back: a
\* tuple is written as an array
json_dump(value) == IF value.t = "tuple" THEN List(value.v) ELSE value

\* json.dump of a record
json_record(service_data) ==
  [service_data EXCEPT !.metadata =
     IF @.t = "dict" THEN Dict([k \in DOMAIN @.v |-> json_dump(@.v[k])]) ELSE @]

save_registry(r) ==
  [r EXCEPT !.file = [t |-> "file",
                      services |-> [i \in DOMAIN r.services |->
                                      json_record(asdict(r.objects, r.services[i]))],
                      updated_at |-> Time(r.now)],
            !.saves = @ + 1]

\* the fields of ServiceInfo, and those without a default
Fields == {"name", "host", "port", "status", "service_type", "version",
           "health_endpoint", "metadata", "registered_at", "last_heartbeat"}

RequiredFields == {"name", "host", "port", "status", "service_type", "version"}

\* ServiceInfo(**service_data) raises TypeError when a required field is
\* missing or a key is no field
Constructible(service_data) ==
  /\ RequiredFields \subseteq DOMAIN service_data
  /\ DOMAIN service_data \subseteq Fields

\* ServiceInfo(**service_data): a field that is not given is None
ServiceInfo(service_data) ==
  [f \in Fields |-> IF f \in DOMAIN service_data THEN service_data[f] ELSE None]

\* the records of the file as objects: every metadata dict is a new object
Loaded_records(records) ==
  LET dicts == {i \in DOMAIN records : ServiceInfo(records[i]).metadata.t = "dict"}
      ref(i) == Cardinality({j \in dicts : j <= i})
  IN [services |-> [i \in DOMAIN records |->
                      [ServiceInfo(records[i]) EXCEPT
                         !.metadata = IF i \in dicts THEN Ref(ref(i)) ELSE @]],
      objects |-> [k \in 1..Cardinality(dicts) |->
                     records[CHOOSE i \in dicts : ref(i) = k].metadata.v]]

\* load_registry that passes over the records it cannot construct
load_registry_lenient(file) ==
  IF file.t # "file" THEN [services |-> <<>>, objects |-> <<>>]
  ELSE Loaded_records(SelectSeq(file.services, Constructible))

\* load_registry: no file leaves the registry empty; a file that json.load
\* or ServiceInfo(**service_data) raises on is caught and leaves it empty
load_registry(file) ==
  IF file.t # "file" THEN [services |-> <<>>, objects |-> <<>>]
  ELSE IF \E i \in DOMAIN file.services : ~Constructible(file.services[i])
  THEN [services |-> <<>>, objects |-> <<>>]
  ELSE Loaded_records(file.services)

\* register_service that keeps the registered_at of a record it replaces
register_service_keeping(r, name, info, metadata, delay) ==
  LET i == ServiceIndex(r.services, name)
      given == Truthy(r.objects, metadata)
      objects == IF given /\ IsRef(metadata) THEN r.objects
                 ELSE Append(r.objects, IF given THEN metadata.v ELSE <<>>)
      service_info ==
        [name |-> name, host |-> info.host, port |-> info.port, status |-> "active",
         service_type |-> info.service_type, version |-> info.version,
         health_endpoint |-> info.health_endpoint,
         metadata |-> IF given /\ IsRef(metadata) THEN metadata ELSE Ref(Len(objects)),
         registered_at |-> IF i = 0 THEN Time(r.now) ELSE r.services[i].registered_at,
         last_heartbeat |-> Time(r.now + delay)]
  IN [s |-> save_registry([r EXCEPT !.services = ServicePut(@, service_info),
                                    !.objects = objects,
                                    !.now = @ + delay]),
      ret |-> Bool(TRUE)]

\* register_service: the clock is read for registered_at and, delay later,
\* for last_heartbeat
register_service(r, name, info, metadata, delay) ==
  LET given == Truthy(r.objects, metadata)
      objects == IF given /\ IsRef(metadata) THEN r.objects
                 ELSE Append(r.objects, IF given THEN metadata.v ELSE <<>>)
      service_info ==
        [name |-> name, host |-> info.host, port |-> info.port, status |-> "active",
         service_type |-> info.service_type, version |-> info.version,
         health_endpoint |-> info.health_endpoint,
         metadata |-> IF given /\ IsRef(metadata) THEN metadata ELSE Ref(Len(objects)),
         registered_at |-> Time(r.now),
         last_heartbeat |-> Time(r.now + delay)]
  IN [s |-> save_registry([r EXCEPT !.services = ServicePut(@, service_info),
                                    !.objects = objects,
                                    !.now = @ + delay]),
      ret |-> Bool(TRUE)]

unregister_service(r, name) ==
  IF ServiceIndex(r.services, name) # 0
  THEN [s |-> save_registry([r EXCEPT !.services =
                                        SelectSeq(@, LAMBDA x : x.name # name)]),
        ret |-> Bool(TRUE)]
  ELSE [s |-> r, ret |-> Bool(FALSE)]

update_service_status(r, name, status) ==
  LET i == ServiceIndex(r.services, name)
  IN IF i # 0
     THEN [s |-> save_registry([r EXCEPT !.services[i].status = status,
                                         !.services[i].last_heartbeat = Time(r.now)]),
           ret |-> Bool(TRUE)]
     ELSE [s |-> r, ret |-> Bool(FALSE)]

\* heartbeat: self.services[name].metadata.update(metadata) raises when the
\* record's metadata is None
heartbeat(r, name, metadata) ==
  LET i == ServiceIndex(r.services, name)
      beaten == [r EXCEPT !.services[i].last_heartbeat = Time(r.now)]
      held == r.services[i].metadata
      patch == IF IsRef(metadata) THEN r.objects[metadata.v] ELSE metadata.v
  IN IF i # 0
     THEN IF Truthy(r.objects, metadata)
          THEN IF held = None
               THEN [s |-> beaten, ret |-> AttributeError]
               ELSE [s |-> save_registry([beaten EXCEPT !.objects[held.v] = patch @@ @]),
                     ret |-> Bool(TRUE)]
          ELSE [s |-> save_registry(beaten), ret |-> Bool(TRUE)]
     ELSE [s |-> r, ret |-> Bool(FALSE)]

\* the record is past the timeout at current_time
IsStale(service, current_time, timeout) ==
  /\ service.last_heartbeat.t = "time"
  /\ current_time - service.last_heartbeat.v > timeout

\* cleanup_stale_services that takes a record at the timeout for stale
cleanup_stale_services_inclusive(r, timeout) ==
  LET stale(x) == IsStale(x, r.now, timeout - 1)
      stale_services == SelectSeq(r.services, stale)
  IN [s |-> IF Len(stale_services) > 0
            THEN save_registry([r EXCEPT !.services =
                                           SelectSeq(@, LAMBDA x : ~stale(x))])
            ELSE r,
      ret |-> IntVal(Len(stale_services))]

cleanup_stale_services(r, timeout) ==
  LET stale(x) == IsStale(x, r.now, timeout)
      stale_services == SelectSeq(r.services, stale)
  IN [s |-> IF Len(stale_services) > 0
            THEN save_registry([r EXCEPT !.services =
                                           SelectSeq(@, LAMBDA x : ~stale(x))])
            ELSE r,
      ret |-> IntVal(Len(stale_services))]

\* the metadata dicts that a record holds, numbered anew, and the records
\* with the new numbers
HeldObjects(r) ==
  LET held == {r.services[i].metadata.v :
                 i \in {j \in DOMAIN r.services : IsRef(r.services[j].metadata)}}
      number(id) == Cardinality({j \in held : j <= id})
  IN [services |-> [i \in DOMAIN r.services |->
                      [r.services[i] EXCEPT
                         !.metadata = IF IsRef(@) THEN Ref(number(@.v)) ELSE @]],
      objects |-> [k \in 1..Cardinality(held) |->
                     r.objects[CHOOSE id \in held : number(id) = k]]]

\* a call of the registry returns: the dicts that no record holds are
\* the caller's, and the caller lets go of them
RegistryReturn(r, call) ==
  /\ r.s.now <= MaxNow
  /\ \E held \in {HeldObjects(r.s)} :
       /\ services' = held.services
       /\ metadata_objects' = held.objects
  /\ registry_file' = r.s.file
  /\ saves' = r.s.saves
  /\ now' = r.s.now
  /\ ret' = r.ret
  /\ last' = call
  /\ calls' = calls + 1
  /\ UNCHANGED <<cacheVars, heartbeat_timeout, manager, default_format, heap, disk, config_cache,
                 optimized_cache, config_history, watchVars, apiVars>>

RegisterService(name, info, metadata, delay) ==
  RegistryReturn(register_service(Registry, name, info, metadata, delay),
                 [op |-> "register_service", name |-> name, info |-> info,
                  metadata |-> metadata])

UnregisterService(name) ==
  RegistryReturn(unregister_service(Registry, name),
                 [op |-> "unregister_service", name |-> name])

UpdateServiceStatus(name, status) ==
  RegistryReturn(update_service_status(Registry, name, status),
                 [op |-> "update_service_status", name |-> name, status |-> status])

Heartbeat(name, metadata) ==
  RegistryReturn(heartbeat(Registry, name, metadata),
                 [op |-> "heartbeat", name |-> name, metadata |-> metadata])

CleanupStaleServices ==
  RegistryReturn(cleanup_stale_services(Registry, heartbeat_timeout),
                 [op |-> "cleanup_stale_services"])

-----------------------------------------------------------------------------
(* OptimizedConfigCache on its own, with its limits.  An entry is a        *)
(* CacheEntry and its key; a value is None, an empty mapping or a document *)
(* that is known by the length of its JSON text.                           *)

\* a document whose json.dumps has n bytes
Document(n) == [t |-> "document", v |-> n]

\* _calculate_size: len(json.dumps(value)); null has 4 bytes and {} has 2
calculate_size(value) ==
  IF value.t = "none" THEN 4
  ELSE IF value.t = "dict" THEN 2
  ELSE value.v

\* the cache as a call finds it
Cache == [cache |-> cache, memory_usage |-> memory_usage, stats |-> stats,
          max_memory_bytes |-> max_memory_bytes, max_entries |-> max_entries,
          recency |-> recency, now |-> now]

\* the position of key in the OrderedDict, 0 when it is no key
EntryIndex(entries, key) ==
  IF \E i \in DOMAIN entries : entries[i].key = key
  THEN CHOOSE i \in DOMAIN entries : entries[i].key = key
  ELSE 0

\* key has been touched: it is the last of the keys
Touched(keys, key) == Append(SelectSeq(keys, LAMBDA k : k # key), key)

\* _evict_lru: popitem(last=False)
evict_lru(c) ==
  IF c.cache = <<>> THEN c
  ELSE [c EXCEPT !.cache = Tail(@),
                 !.memory_usage = @ - c.cache[1].size_bytes,
                 !.stats.evictions = @ + 1]

\* the while of put: evict until the entry fits or the cache is empty
RECURSIVE evict_while(_, _)
evict_while(c, size_bytes) ==
  IF (Len(c.cache) >= c.max_entries \/ c.memory_usage + size_bytes > c.max_memory_bytes)
     /\ c.cache # <<>>
  THEN evict_while(evict_lru(c), size_bytes)
  ELSE c

\* get: a hit counts, moves the entry to the end and returns its value; a
\* miss counts and returns None
get(c, key) ==
  LET i == EntryIndex(c.cache, key)
      entry == [c.cache[i] EXCEPT !.access_count = @ + 1]
  IN IF i # 0
     THEN [s |-> [c EXCEPT !.cache = Append(SelectSeq(@, LAMBDA e : e.key # key), entry),
                           !.stats.hits = @ + 1,
                           !.recency = Touched(@, key)],
           ret |-> entry.value]
     ELSE [s |-> [c EXCEPT !.stats.misses = @ + 1], ret |-> None]

\* put that deletes the entry of the key and keeps its bytes counted
put_counting_twice(c, key, value) ==
  LET size_bytes == calculate_size(value)
      removed == [c EXCEPT !.cache = SelectSeq(@, LAMBDA e : e.key # key)]
      evicted == evict_while(removed, size_bytes)
      entry == [key |-> key, value |-> value, timestamp |-> c.now,
                access_count |-> 1, size_bytes |-> size_bytes]
  IN [s |-> [evicted EXCEPT !.cache = Append(@, entry),
                            !.memory_usage = @ + size_bytes,
                            !.recency = Touched(@, key)],
      ret |-> None]

\* put: the entry of the key is removed, entries are evicted, and the new
\* entry is added at the end whether it fits or not
put(c, key, value) ==
  LET size_bytes == calculate_size(value)
      i == EntryIndex(c.cache, key)
      removed == IF i # 0
                 THEN [c EXCEPT !.memory_usage = @ - c.cache[i].size_bytes,
                                !.cache = SelectSeq(@, LAMBDA e : e.key # key)]
                 ELSE c
      evicted == evict_while(removed, size_bytes)
      entry == [key |-> key, value |-> value, timestamp |-> c.now,
                access_count |-> 1, size_bytes |-> size_bytes]
  IN [s |-> [evicted EXCEPT !.cache = Append(@, entry),
                            !.memory_usage = @ + size_bytes,
                            !.recency = Touched(@, key)],
      ret |-> None]

clear(c) ==
  [s |-> [c EXCEPT !.cache = <<>>, !.memory_usage = 0, !.recency = <<>>], ret |-> None]

\* a call of the cache returns
CacheReturn(r, call) ==
  /\ cache' = r.s.cache
  /\ memory_usage' = r.s.memory_usage
  /\ stats' = r.s.stats
  /\ recency' = r.s.recency
  /\ ret' = r.ret
  /\ last' = call
  /\ calls' = calls + 1
  /\ UNCHANGED <<max_memory_bytes, max_entries, regVars, manager, default_format, heap,
                 disk, config_cache, optimized_cache, config_history, now, watchVars,
                 apiVars>>

Get(key) == CacheReturn(get(Cache, key), [op |-> "get", key |-> key])

Put(key, value) ==
  CacheReturn(put(Cache, key, value), [op |-> "put", key |-> key, value |-> value])

Clear == CacheReturn(clear(Cache), [op |-> "clear"])

\* the records of r by value, in the order of the dict
Values(r) == [i \in DOMAIN r.services |-> asdict(r.objects, r.services[i])]

\* get_service: self.services.get(name)
get_service(r, name) ==
  LET i == ServiceIndex(r.services, name)
  IN [s |-> r, ret |-> IF i = 0 THEN None ELSE Values(r)[i]]

get_services_by_type(r, service_type) ==
  [s |-> r,
   ret |-> List(SelectSeq(Values(r), LAMBDA x : x.service_type = service_type))]

\* get_active_services: cleanup_stale_services comes first
get_active_services(r, timeout) ==
  LET swept == cleanup_stale_services(r, timeout).s
  IN [s |-> swept,
      ret |-> List(SelectSeq(Values(swept), LAMBDA x : x.status = "active"))]

\* get_all_services: self.services.copy()
get_all_services(r) == [s |-> r, ret |-> List(Values(r))]

find_service(r, service_type, status) ==
  LET found == SelectSeq(Values(r),
                         LAMBDA x : x.service_type = service_type /\ x.status = status)
  IN [s |-> r, ret |-> IF Len(found) = 0 THEN None ELSE found[1]]

\* get_service_url: "http://host:port" and the endpoint, which gets a
\* leading slash when it has none
get_service_url(r, name, endpoint) ==
  LET service == get_service(r, name).ret
  IN [s |-> r,
      ret |-> IF service = None THEN None
              ELSE [t |-> "url", host |-> service.host, port |-> service.port,
                    path |-> IF endpoint = "" \/ Head(endpoint) = "/"
                             THEN endpoint ELSE "/" \o endpoint]]

\* get_registry_status: cleanup_stale_services comes first
get_registry_status(r, timeout) ==
  LET swept == cleanup_stale_services(r, timeout).s
      all == Values(swept)
      types == {all[i].service_type : i \in DOMAIN all}
  IN [s |-> swept,
      ret |-> [t |-> "status",
               total_services |-> Len(all),
               active_services |-> Len(SelectSeq(all, LAMBDA x : x.status = "active")),
               service_types |->
                 [ty \in types |-> Len(SelectSeq(all, LAMBDA x : x.service_type = ty))],
               last_updated |-> Time(swept.now)]]

GetService(name) ==
  RegistryReturn(get_service(Registry, name), [op |-> "get_service", name |-> name])

GetServicesByType(service_type) ==
  RegistryReturn(get_services_by_type(Registry, service_type),
                 [op |-> "get_services_by_type", service_type |-> service_type])

GetActiveServices ==
  RegistryReturn(get_active_services(Registry, heartbeat_timeout),
                 [op |-> "get_active_services"])

GetAllServices ==
  RegistryReturn(get_all_services(Registry), [op |-> "get_all_services"])

FindService(service_type, status) ==
  RegistryReturn(find_service(Registry, service_type, status),
                 [op |-> "find_service", service_type |-> service_type,
                  status |-> status])

GetServiceUrl(name, endpoint) ==
  RegistryReturn(get_service_url(Registry, name, endpoint),
                 [op |-> "get_service_url", name |-> name, endpoint |-> endpoint])

GetRegistryStatus ==
  RegistryReturn(get_registry_status(Registry, heartbeat_timeout),
                 [op |-> "get_registry_status"])

Next ==
  \/ Tick
  \/ \E n \in Names, arg \in Arguments, f \in Formats :
       calls < MaxCalls /\ SaveConfig(n, arg, f, 0)
  \/ \E n \in Names, uc \in BOOLEAN :
       calls < MaxCalls /\ LoadConfig(n, uc)
  \/ calls < MaxCalls /\ ListConfigs
  \/ \E n \in Names, u \in Updates, b \in BOOLEAN :
       calls < MaxCalls /\ UpdateConfig(n, u, b, 0)
  \/ \E n \in Names, b \in BOOLEAN :
       calls < MaxCalls /\ DeleteConfig(n, b, 0)

Spec == Init /\ [][Next]_vars

\* the same store opened on a directory that may already hold a file
SpecDir == InitDir /\ [][Next]_vars

SpecOptimized == InitOptimized /\ [][Next]_vars

-----------------------------------------------------------------------------
(* A directory shared with another store instance.                         *)

\* another FileConfigManager on the same directory saves a document: of
\* its state only the directory is shared with this store
OtherSave(config_name, body, format) ==
  /\ \E p \in {Parse(<<>>, body)} :
       disk' = FileConfigManager_save_config(
                 [h |-> p.h, disk |-> disk, cache |-> <<>>, opt |-> <<>>,
                  hist |-> <<>>, now |-> now],
                 config_name, p.val, format).s.disk
  /\ last' = [op |-> "other_save", name |-> config_name, data |-> body,
              format |-> format]
  /\ calls' = calls + 1
  /\ UNCHANGED <<cacheVars, regVars, manager, default_format, heap, config_cache,
                 optimized_cache, config_history, now, ret, watchVars, apiVars>>

InitShared ==
  /\ manager \in {"FileConfigManager", "OptimizedFileConfigManager"}
  /\ disk = <<>>
  /\ InitStore

NextShared ==
  \/ Next
  \/ \E n \in Names, b \in Bodies, f \in {"json", "yaml"} :
       calls < MaxCalls /\ OtherSave(n, b, f)

SpecShared == InitShared /\ [][NextShared]_vars

-----------------------------------------------------------------------------
(* A caller that writes into the document its last call returned.          *)

\* what the caller assigns: a key the documents have, and a key of its own
CallerKeys == {"a", "z"}

\* config = manager.load_config(name); config[key] = 9
CallerSets(key) ==
  /\ IsDict(heap, ret)
  /\ heap' = DictSet(heap, ret.v, key, IntVal(9))
  /\ last' = [op |-> "caller_sets", key |-> key]
  /\ calls' = calls + 1
  /\ UNCHANGED <<cacheVars, regVars, manager, default_format, disk, config_cache,
                 optimized_cache, config_history, now, ret, watchVars, apiVars>>

InitCaller ==
  /\ manager \in {"FileConfigManager", "OptimizedFileConfigManager"}
  /\ disk = <<>>
  /\ InitStore

NextCaller ==
  \/ Next
  \/ \E k \in CallerKeys : calls < MaxCalls /\ CallerSets(k)

SpecCaller == InitCaller /\ [][NextCaller]_vars

-----------------------------------------------------------------------------
(* An AdvancedConfigManager with two documents to merge.                   *)

MergeNames == {"n1", "n2"}

MergeBodies ==
  { Dict([a |-> Dict([x |-> IntVal(1)])]),
    Dict([a |-> Dict([x |-> IntVal(2), y |-> IntVal(2)])]) }

MergeArguments == {[held |-> FALSE, tree |-> b] : b \in MergeBodies}
                  \cup {[held |-> TRUE, tree |-> None]}

MergeInputs == {<<"n1", "n2">>, <<"n2", "n1">>, <<"n1", "n2", "n1">>}

Strategies == {"override", "deep_merge", "append"}

\* a schema that asks for a key "a" holding a mapping and types a key "b"
NeedsA == [required |-> {"a"}, properties |-> [a |-> "object", b |-> "string"]]

FieldLists ==
  { <<Dict([name |-> Str("a"), type |-> Str("integer")])>>,
    <<Dict([name |-> Str("a"), type |-> Str("object")]),
      Dict([name |-> Str("b"), default |-> IntVal(1)])>> }

InitAdvanced ==
  /\ manager = "AdvancedConfigManager"
  /\ disk = <<>>
  /\ InitStore
  /\ default_format = "json"

NextAdvanced ==
  \/ Tick
  \/ \E n \in MergeNames, arg \in MergeArguments :
       calls < MaxCalls /\ SaveConfig(n, arg, NoFormat, 0)
  \/ \E n \in MergeNames, arg \in MergeArguments, sc \in {NoSchema, NeedsA} :
       calls < MaxCalls /\ SaveConfigWithValidation(n, arg, sc, NoFormat, 0)
  \/ \E n \in MergeNames, uc \in BOOLEAN :
       calls < MaxCalls /\ LoadConfig(n, uc)
  \/ \E n \in MergeNames, u \in Updates, b \in BOOLEAN :
       calls < MaxCalls /\ UpdateConfig(n, u, b, 0)
  \/ \E n \in MergeNames, b \in BOOLEAN :
       calls < MaxCalls /\ DeleteConfig(n, b, 0)
  \/ \E n \in MergeNames, time \in 0..MaxNow :
       calls < MaxCalls /\ RestoreConfigVersion(n, Time(time), 0)
  \/ \E ns \in MergeInputs, st \in Strategies :
       calls < MaxCalls /\ MergeConfigs(ns, "n3", st, 0)
  \/ \E fields \in FieldLists :
       calls < MaxCalls /\ CreateConfigTemplate("t", fields, 0)

SpecAdvanced == InitAdvanced /\ [][NextAdvanced]_vars

-----------------------------------------------------------------------------
(* An AdvancedConfigManager that saves with a schema.                      *)

\* a schema that asks for a key "a" and types the keys "a", "b" and "c"
TypesABC == [required |-> {"a"},
             properties |-> [a |-> "object", b |-> "string", c |-> "integer"]]

\* documents that fit the schema or do not
ValidateBodies ==
  { Dict([a |-> Dict(<<>>), b |-> Str("s"), c |-> IntVal(1)]),
    Dict([b |-> Str("s")]),
    Dict([a |-> IntVal(1)]),
    Dict([a |-> Dict(<<>>), b |-> IntVal(2)]),
    Dict([a |-> Dict(<<>>), c |-> Bool(TRUE)]) }

NextValidate ==
  \/ Tick
  \/ \E b \in ValidateBodies, sc \in {NoSchema, TypesABC} :
       /\ calls < MaxCalls
       /\ SaveConfigWithValidation("n1", [held |-> FALSE, tree |-> b], sc, NoFormat, 0)
  \/ \E uc \in BOOLEAN : calls < MaxCalls /\ LoadConfig("n1", uc)

SpecValidate == InitAdvanced /\ [][NextValidate]_vars

-----------------------------------------------------------------------------
(* An AdvancedConfigManager that one caller saves one document to, with    *)
(* history, once per tick of the clock.                                    *)

HistoryBody == Dict([a |-> IntVal(1)])

NextHistory ==
  /\ calls < MaxAppends
  /\ \E f \in {"json", "yaml"} :
       SaveConfigWithValidation("n1", [held |-> FALSE, tree |-> HistoryBody],
                                NoSchema, f, 1)

SpecHistory == InitAdvanced /\ [][NextHistory]_vars

-----------------------------------------------------------------------------
(* An AdvancedConfigManager whose caller saves versions of one document    *)
(* with history and asks for the difference of two of them.                *)

DiffBodies ==
  { Dict(<<>>),
    Dict([a |-> Dict([x |-> IntVal(1)]), b |-> IntVal(2)]),
    Dict([a |-> Dict([x |-> IntVal(2)]), b |-> IntVal(2), c |-> IntVal(3)]) }

NextDiff ==
  \/ Tick
  \/ \E body \in DiffBodies :
       calls < MaxCalls /\ SaveConfigWithValidation("n1", [held |-> FALSE, tree |-> body],
                                                    NoSchema, NoFormat, 0)
  \/ \E n \in MergeNames, v1 \in 0..MaxNow, v2 \in 0..MaxNow :
       calls < MaxCalls /\ GetConfigDiff(n, Time(v1), Time(v2))

SpecDiff == InitAdvanced /\ [][NextDiff]_vars

-----------------------------------------------------------------------------
(* An AdvancedConfigManager on a directory that holds n1.json, with two    *)
(* threads that watch it, stop watching, save and delete, and the poll     *)
(* threads these start.                                                    *)

InitWatch ==
  /\ manager = "AdvancedConfigManager"
  /\ disk = <<"n1", "json">> :> [data |-> HandWritten, mtime |-> 0]
  /\ InitStore
  /\ default_format = "json"

NextWatch ==
  \/ Tick
  \/ calls < MaxCalls /\ AnyIdle
       /\ SaveConfig("n1", [held |-> FALSE, tree |-> HandWritten], NoFormat, 0)
  \/ calls < MaxCalls /\ AnyIdle /\ DeleteConfig("n1", FALSE, 0)
  \/ \E c \in Callers, cb \in Callbacks :
       calls < MaxCalls /\ WatchConfig(c, "n1", cb)
  \/ \E c \in Callers : StartWatchThread(c)
  \/ \E n \in {"n1", NoName} : calls < MaxCalls /\ StopWatching(n)
  \/ \E th \in DOMAIN threads : PollWhile(th)
  \/ \E th \in DOMAIN threads : PollFor(th)
  \/ \E th \in DOMAIN threads : PollStat(th)
  \/ \E th \in DOMAIN threads : PollNotify(th)
  \/ \E th \in DOMAIN threads : PollSleep(th)

SpecWatch == InitWatch /\ [][NextWatch]_vars

\* the same store with one calling thread; a poll thread that can take a
\* step takes one sooner or later (its sleeps end, the scheduler runs it)
NextPoll ==
  \/ Tick
  \/ calls < MaxCalls
       /\ SaveConfig("n1", [held |-> FALSE, tree |-> HandWritten], NoFormat, 0)
  \/ calls < MaxCalls /\ DeleteConfig("n1", FALSE, 0)
  \/ \E cb \in Callbacks : calls < MaxCalls /\ WatchConfig(1, "n1", cb)
  \/ StartWatchThread(1)
  \/ \E n \in {"n1", NoName} : calls < MaxCalls /\ StopWatching(n)
  \/ \E th \in DOMAIN threads : PollWhile(th)
  \/ \E th \in DOMAIN threads : PollFor(th)
  \/ \E th \in DOMAIN threads : PollStat(th)
  \/ \E th \in DOMAIN threads : PollNotify(th)
  \/ \E th \in DOMAIN threads : PollSleep(th)

\* a step of the poll thread th (each changes the thread), PollNotify told by
\* what it does to the thread
PollTaken(th) ==
  \/ PollWhile(th) \/ PollFor(th) \/ PollStat(th) \/ PollSleep(th)
  \/ /\ threads[th].pc = "changed"
     /\ threads' = [threads EXCEPT ![th] = [@ EXCEPT !.pc = "for", !.cur = 0, !.mtime = 0]]

PollFair ==
  \A th \in 1..MaxThreads :
    WF_threads(IF th \in DOMAIN threads THEN PollTaken(th) ELSE FALSE)

SpecPoll == InitWatch /\ [][NextPoll]_vars /\ PollFair

\* the same store and thread with calls enough for a watch, a stop, a second
\* watch and a modification after it
MaxServeCalls == 4

NextServe ==
  \/ Tick
  \/ calls < MaxServeCalls
       /\ SaveConfig("n1", [held |-> FALSE, tree |-> HandWritten], NoFormat, 0)
  \/ calls < MaxServeCalls /\ WatchConfig(1, "n1", "returns")
  \/ StartWatchThread(1)
  \/ \E n \in {"n1", NoName} : calls < MaxServeCalls /\ StopWatching(n)
  \/ \E th \in DOMAIN threads : PollWhile(th)
  \/ \E th \in DOMAIN threads : PollFor(th)
  \/ \E th \in DOMAIN threads : PollStat(th)
  \/ \E th \in DOMAIN threads : PollNotify(th)
  \/ \E th \in DOMAIN threads : PollSleep(th)

SpecServe == InitWatch /\ [][NextServe]_vars /\ PollFair

\* a store with two documents that are watched and stopped by name
WatchNames == {"n1", "n2"}

InitStopName ==
  /\ manager = "AdvancedConfigManager"
  /\ disk = [f \in {<<n, "json">> : n \in WatchNames} |->
              [data |-> HandWritten, mtime |-> 0]]
  /\ InitStore
  /\ default_format = "json"

NextStopName ==
  \/ Tick
  \/ \E n \in WatchNames :
       calls < MaxCalls
         /\ SaveConfig(n, [held |-> FALSE, tree |-> HandWritten], NoFormat, 0)
  \/ \E n \in WatchNames : calls < MaxCalls /\ WatchConfig(1, n, "returns")
  \/ StartWatchThread(1)
  \/ \E n \in WatchNames : calls < MaxCalls /\ StopWatching(n)
  \/ \E th \in DOMAIN threads : PollWhile(th)
  \/ \E th \in DOMAIN threads : PollFor(th)
  \/ \E th \in DOMAIN threads : PollStat(th)
  \/ \E th \in DOMAIN threads : PollNotify(th)
  \/ \E th \in DOMAIN threads : PollSleep(th)

SpecStopName == InitStopName /\ [][NextStopName]_vars

-----------------------------------------------------------------------------
(* A ConfigCoordinationAPI on a directory that holds service_foo.json,     *)
(* with subscribers, a writer of the document and the poll thread.         *)

Subscribers == {"s1", "s2"}

PatternLists ==
  { <<"service_*">>, <<"other_*">>, <<"service_foo">>, <<"service_*", "service_foo">> }

InitSubscribe ==
  /\ manager = "AdvancedConfigManager"
  /\ disk = <<"service_foo", "json">> :> [data |-> HandWritten, mtime |-> 0]
  /\ InitStore
  /\ default_format = "json"

NextSubscribe ==
  \/ Tick
  \/ calls < MaxCalls
       /\ SaveConfig("service_foo", [held |-> FALSE, tree |-> HandWritten], NoFormat, 0)
  \/ \E id \in Subscribers, ps \in PatternLists, cb \in Callbacks :
       calls < MaxCalls /\ Subscribe(id, ps, cb)
  \/ \E th \in DOMAIN threads : PollWhile(th)
  \/ \E th \in DOMAIN threads : PollFor(th)
  \/ \E th \in DOMAIN threads : PollStat(th)
  \/ \E th \in DOMAIN threads : PollNotify(th)
  \/ \E th \in DOMAIN threads : PollSleep(th)

SpecSubscribe == InitSubscribe /\ [][NextSubscribe]_vars

\* the same API on a directory that may not hold the document yet
InitSubscribeEarly ==
  /\ manager = "AdvancedConfigManager"
  /\ disk \in {<<>>, <<"service_foo", "json">> :> [data |-> HandWritten, mtime |-> 0]}
  /\ InitStore
  /\ default_format = "json"

SpecSubscribeEarly == InitSubscribeEarly /\ [][NextSubscribe]_vars

-----------------------------------------------------------------------------
(* The service registry on its own.                                        *)

ServiceNames == {"a", "b"}

\* host, port, service_type, version and health_endpoint of a registration
ServiceInfos ==
  {[host |-> "h1", port |-> 80, service_type |-> "api", version |-> "1.0",
    health_endpoint |-> None],
   [host |-> "h2", port |-> 81, service_type |-> "worker", version |-> "2.0",
    health_endpoint |-> Str("/health")]}

\* the metadata argument of register_service and of heartbeat: None, a dict
\* written in the call, or a dict that is already held somewhere
MetadataArguments ==
  {None, Dict("k" :> IntVal(1))}
    \cup {Ref(i) : i \in DOMAIN metadata_objects}

Statuses == {"maintenance", "unknown"}

\* heartbeat_timeout as the constructor gets it, in ticks of the clock
Timeouts == {0, 1}

\* a record as the registry wrote it at time 0
Written(name, status) ==
  [name |-> name, host |-> "h1", port |-> 80, status |-> status,
   service_type |-> "api", version |-> "1.0", health_endpoint |-> None,
   metadata |-> Dict(<<>>), registered_at |-> Time(0), last_heartbeat |-> Time(0)]

\* a record that has only the fields ServiceInfo requires: the others
\* default to None
Required(name) ==
  [name |-> name, host |-> "h1", port |-> 80, status |-> "active",
   service_type |-> "api", version |-> "1.0", health_endpoint |-> None,
   metadata |-> None, registered_at |-> None, last_heartbeat |-> None]

\* the registry file as the constructor finds it
InitialRegistryFiles ==
  {NoRegistryFile}
    \cup {[t |-> "file", services |-> svcs, updated_at |-> Time(0)] :
            svcs \in {<<Written("a", "active")>>, <<Required("a")>>,
                      <<Written("a", "maintenance"), Written("b", "active")>>}}

\* ServiceRegistry(registry_file, heartbeat_timeout)
InitRegistry ==
  /\ manager = "FileConfigManager"
  /\ disk = <<>>
  /\ InitConfigStore
  /\ heartbeat_timeout \in Timeouts
  /\ registry_file \in InitialRegistryFiles
  /\ \E loaded \in {load_registry(registry_file)} :
       /\ services = loaded.services
       /\ metadata_objects = loaded.objects
  /\ saves = 0

\* a file that json.load raises on
CorruptRegistryFile == [t |-> "corrupt"]

\* a record without a port, and one with a key that is no field
NoPort(name) ==
  [name |-> name, host |-> "h1", status |-> "active", service_type |-> "api",
   version |-> "1.0"]

ExtraKey(name) ==
  [name |-> name, host |-> "h1", port |-> 80, status |-> "active",
   service_type |-> "api", version |-> "1.0", owner |-> "ops"]

\* a record with the required fields and no other
Minimal(name) ==
  [name |-> name, host |-> "h1", port |-> 80, status |-> "active",
   service_type |-> "api", version |-> "1.0"]

\* the registry files a constructor may find, well-formed or not
FoundRegistryFiles ==
  <<NoRegistryFile,
    CorruptRegistryFile,
    [t |-> "file", services |-> <<>>, updated_at |-> Time(0)],
    [t |-> "file", services |-> <<Written("a", "inactive"), Minimal("b")>>,
     updated_at |-> Time(0)],
    [t |-> "file", services |-> <<Written("b", "active"), NoPort("a")>>,
     updated_at |-> Time(0)],
    [t |-> "file", services |-> <<ExtraKey("a"), Written("b", "active")>>,
     updated_at |-> Time(0)]>>

InitConstruct ==
  /\ manager = "FileConfigManager"
  /\ disk = <<>>
  /\ InitConfigStore
  /\ heartbeat_timeout = 1
  /\ \E k \in DOMAIN FoundRegistryFiles : registry_file = FoundRegistryFiles[k]
  /\ \E loaded \in {load_registry(registry_file)} :
       /\ services = loaded.services
       /\ metadata_objects = loaded.objects
  /\ saves = 0

NextRegistry ==
  \/ Tick
  \/ \E n \in ServiceNames, info \in ServiceInfos, m \in MetadataArguments,
        delay \in {0, 1} :
       calls < MaxRegistryCalls /\ RegisterService(n, info, m, delay)
  \/ \E n \in ServiceNames : calls < MaxRegistryCalls /\ UnregisterService(n)
  \/ \E n \in ServiceNames, status \in Statuses :
       calls < MaxRegistryCalls /\ UpdateServiceStatus(n, status)
  \/ \E n \in ServiceNames, m \in MetadataArguments :
       calls < MaxRegistryCalls /\ Heartbeat(n, m)
  \/ calls < MaxRegistryCalls /\ CleanupStaleServices

SpecRegistry == InitRegistry /\ [][NextRegistry]_vars

\* metadata with a value that JSON has no type of its own for
TupleMetadata ==
  {None, Dict("k" :> IntVal(1)), Dict("p" :> Tuple(<<80, 443>>))}

NextPersist ==
  \/ Tick
  \/ \E n \in ServiceNames, info \in ServiceInfos, m \in TupleMetadata :
       calls < MaxRegistryCalls /\ RegisterService(n, info, m, 0)
  \/ \E n \in ServiceNames : calls < MaxRegistryCalls /\ UnregisterService(n)
  \/ \E n \in ServiceNames, status \in Statuses :
       calls < MaxRegistryCalls /\ UpdateServiceStatus(n, status)
  \/ \E n \in ServiceNames, m \in TupleMetadata :
       calls < MaxRegistryCalls /\ Heartbeat(n, m)
  \/ calls < MaxRegistryCalls /\ CleanupStaleServices

SpecPersist == InitRegistry /\ [][NextPersist]_vars

\* the registry constructed on any file
SpecConstruct == InitConstruct /\ [][NextRegistry]_vars

ServiceTypes == {"api", "worker"}

Endpoints == {"", "health", "/health"}

\* the registry with the methods that read it
NextRegistryReads ==
  \/ Tick
  \/ \E n \in ServiceNames, info \in ServiceInfos :
       calls < MaxReads /\ RegisterService(n, info, None, 0)
  \/ \E n \in ServiceNames : calls < MaxReads /\ UnregisterService(n)
  \/ \E n \in ServiceNames, status \in Statuses :
       calls < MaxReads /\ UpdateServiceStatus(n, status)
  \/ \E n \in ServiceNames, m \in {None, Dict("k" :> IntVal(1))} :
       calls < MaxReads /\ Heartbeat(n, m)
  \/ calls < MaxReads /\ CleanupStaleServices
  \/ \E n \in ServiceNames : calls < MaxReads /\ GetService(n)
  \/ \E ty \in ServiceTypes : calls < MaxReads /\ GetServicesByType(ty)
  \/ calls < MaxReads /\ GetActiveServices
  \/ calls < MaxReads /\ GetAllServices
  \/ \E ty \in ServiceTypes, status \in {"active", "maintenance"} :
       calls < MaxReads /\ FindService(ty, status)
  \/ \E n \in ServiceNames, e \in Endpoints : calls < MaxReads /\ GetServiceUrl(n, e)
  \/ calls < MaxReads /\ GetRegistryStatus

SpecRegistryReads == InitRegistry /\ [][NextRegistryReads]_vars

-----------------------------------------------------------------------------
(* The cache on its own.                                                   *)

Keys == {"k1", "k2", "k3"}

\* bytes per megabyte
MB == 1024 * 1024

\* None, an empty mapping, a document of which two do not fit into one
\* megabyte, and one that does not fit alone
CacheValues == <<None, Dict(<<>>), Document(600000), Document(1100000)>>

\* OptimizedConfigCache(max_memory_mb, max_entries)
InitCache ==
  /\ manager = "FileConfigManager"
  /\ disk = <<>>
  /\ InitManager
  /\ NoRegistry
  /\ cache = <<>>
  /\ memory_usage = 0
  /\ stats = [hits |-> 0, misses |-> 0, evictions |-> 0, memory_evictions |-> 0]
  /\ \E max_memory_mb \in {0, 1} : max_memory_bytes = max_memory_mb * MB
  /\ max_entries \in {0, 1, 2}
  /\ recency = <<>>

NextCache ==
  \/ \E k \in Keys, v \in DOMAIN CacheValues :
       calls < MaxCacheCalls /\ Put(k, CacheValues[v])
  \/ \E k \in Keys : calls < MaxCacheCalls /\ Get(k)
  \/ calls < MaxCacheCalls /\ Clear

SpecCache == InitCache /\ [][NextCache]_vars

\* a cache of one megabyte that gets and puts values of a few bytes: the
\* memory limit is never what makes put evict
InitLRU == InitCache /\ max_memory_bytes = MB

NextLRU ==
  \/ \E k \in Keys, v \in 1..2 : calls < MaxLRUCalls /\ Put(k, CacheValues[v])
  \/ \E k \in Keys : calls < MaxLRUCalls /\ Get(k)

SpecLRU == InitLRU /\ [][NextLRU]_vars

-----------------------------------------------------------------------------
(* ConfigService: a FileConfigManager and a ServiceRegistry, the service   *)
(* registered in its own registry by the constructor.                      *)

service_name == "config-coordination"

\* heartbeat_timeout of ServiceRegistry(registry_file), in seconds
default_heartbeat_timeout == 300

\* the document get_global_config returns when there is no global document
DefaultGlobalConfig ==
  Dict([system |-> Dict([name |-> Str("Data Processor System"),
                         version |-> Str("1.0"),
                         environment |-> Str("development")]),
        logging |-> Dict([level |-> Str("INFO"),
                          format |-> Str("%(asctime)s - %(name)s - %(levelname)s - %(message)s")]),
        coordination |-> Dict([heartbeat_interval |-> IntVal(60),
                               cleanup_interval |-> IntVal(300)])])

\* _register_self, with the default config_dir and registry_file
register_self(r) ==
  register_service(r, service_name,
                   [host |-> "localhost", port |-> 8080, service_type |-> "config",
                    version |-> "1.0", health_endpoint |-> Str("/health")],
                   Dict([config_dir |-> Str("config"),
                         registry_file |-> Str("service_registry.json"),
                         capabilities |-> List(<<Str("config_management"),
                                                 Str("service_registry"),
                                                 Str("coordination")>>)]),
                   0).s

get_service_config(s, name) ==
  LET r == load_config(s, "service_" \o name, TRUE)
  IN IF r.ret = FileNotFoundError THEN [s |-> r.s, ret |-> None] ELSE r

get_global_config(s) ==
  LET r == load_config(s, "global", TRUE)
      default == Parse(r.s.h, DefaultGlobalConfig)
  IN IF r.ret = FileNotFoundError
     THEN [s |-> [r.s EXCEPT !.h = default.h], ret |-> default.val]
     ELSE r

GetServiceConfig(name) ==
  Return(get_service_config(Store, name), [op |-> "get_service_config", name |-> name])

GetGlobalConfig ==
  Return(get_global_config(Store), [op |-> "get_global_config"])

\* the documents the service looks up
ConfigNames == {"global", "service_a"}

\* the directory as the constructor finds it
ServiceDirs ==
  {<<>>,
   <<"global", "json">> :> [data |-> HandWritten, mtime |-> 0],
   <<"service_a", "json">> :> [data |-> HandWritten, mtime |-> 0]}

\* ConfigService(config_dir, registry_file)
InitService ==
  /\ manager = "FileConfigManager"
  /\ disk \in ServiceDirs
  /\ InitConfigStore
  /\ default_format = "json"
  /\ heartbeat_timeout = default_heartbeat_timeout
  /\ \E file \in InitialRegistryFiles :
       \E loaded \in {load_registry(file)} :
         \E r \in {register_self([services |-> loaded.services,
                                   objects |-> loaded.objects,
                                   file |-> file, saves |-> 0, now |-> 0])} :
           /\ services = HeldObjects(r).services
           /\ metadata_objects = HeldObjects(r).objects
           /\ registry_file = r.file
           /\ saves = r.saves

NextService ==
  \/ Tick
  \/ \E n \in ConfigNames, uc \in BOOLEAN : calls < MaxCalls /\ LoadConfig(n, uc)
  \/ \E n \in ServiceNames : calls < MaxCalls /\ GetServiceConfig(n)
  \/ calls < MaxCalls /\ GetGlobalConfig
  \/ \E n \in ServiceNames \cup {service_name} : calls < MaxCalls /\ UnregisterService(n)
  \/ \E n \in ServiceNames \cup {service_name} : calls < MaxCalls /\ GetService(n)
  \/ \E n \in ServiceNames \cup {service_name}, e \in Endpoints :
       calls < MaxCalls /\ GetServiceUrl(n, e)

SpecService == InitService /\ [][NextService]_vars

-----------------------------------------------------------------------------
(* What the claims speak of.                                               *)

\* this step is a call of the method op
IsCall(op) == calls' = calls + 1 /\ last'.op = op

NoFile == <<"", "">>

\* the file a name resolves to: name.json, else name.yaml, else name.yml
FirstFile(d, n) ==
  IF <<n, "json">> \in DOMAIN d THEN <<n, "json">>
  ELSE IF <<n, "yaml">> \in DOMAIN d THEN <<n, "yaml">>
  ELSE IF <<n, "yml">> \in DOMAIN d THEN <<n, "yml">>
  ELSE NoFile

\* a document without the reserved metadata key
NonMetadata(tree) == [k \in DOMAIN tree.v \ {"_metadata"} |-> tree.v[k]]

HasMetadata(tree) ==
  /\ "_metadata" \in DOMAIN tree.v
  /\ {"created", "version", "format"} \subseteq DOMAIN tree.v["_metadata"].v

\* the cached documents, by value
CacheView == [n \in DOMAIN config_cache |-> Dump(heap, config_cache[n])]

-----------------------------------------------------------------------------
(* C1 .. C7: save, load, update and delete                                 *)

\* C1: after save(name, body, format), a load of name, from the cache and
\* from disk alike, returns the non-metadata keys and values of body
C1_SaveThenLoad ==
  last.op = "save_config" =>
    \A use_cache \in BOOLEAN :
      LET r == load_config(Store, last.name, use_cache)
      IN /\ IsRef(r.ret)
         /\ NonMetadata(Dump(r.s.h, r.ret)) = NonMetadata(last.data)

\* C2: a save keeps the metadata.created its body carries and stamps
\* metadata.updated with the time of the save
C2_CreatedKeptUpdatedStamped ==
  last.op = "save_config" =>
    LET md == disk[ret.v].data.v["_metadata"].v
    IN /\ ("_metadata" \in DOMAIN last.data.v
            /\ "created" \in DOMAIN last.data.v["_metadata"].v)
           => md["created"] = last.data.v["_metadata"].v["created"]
       /\ "updated" \in DOMAIN md
       /\ md["updated"] = Time(now)

\* C3: every document a load returns carries metadata created, version, format
C3_MetadataPresent ==
  (last.op = "load_config" /\ IsRef(ret)) => HasMetadata(Dump(heap, ret))

\* C4: a load of a cached name with use_cache returns the cached document and
\* reads nothing; any other load returns the parse of the first of name.json,
\* name.yaml, name.yml and caches it; with none of them it raises
\* FileNotFoundError and the cache stays as it was
C4_LoadConfig ==
  [][IsCall("load_config") =>
       LET n == last'.name
       IN /\ disk' = disk
          /\ IF last'.use_cache /\ n \in DOMAIN config_cache
             THEN /\ IsRef(ret')
                  /\ ret' = config_cache'[n]
                  /\ CacheView' = CacheView
             ELSE IF FirstFile(disk, n) # NoFile
             THEN /\ IsRef(ret')
                  /\ Dump(heap', ret') = disk[FirstFile(disk, n)].data
                  /\ ret' = config_cache'[n]
                  /\ DOMAIN config_cache' = DOMAIN config_cache \cup {n}
                  /\ \A m \in DOMAIN config_cache \ {n} : CacheView'[m] = CacheView[m]
             ELSE /\ ret' = FileNotFoundError
                  /\ CacheView' = CacheView]_vars

\* C4 happens: a load that bypassed the cache chose name.json over name.yaml
C4_Witness ==
  /\ last.op = "load_config"
  /\ ~last.use_cache
  /\ {<<last.name, "json">>, <<last.name, "yaml">>} \subseteq DOMAIN disk
  /\ IsRef(ret)
  /\ Dump(heap, ret) = disk[<<last.name, "json">>].data
  /\ Dump(heap, ret) # disk[<<last.name, "yaml">>].data

\* C5: update stores a document that has every key of updates with the given
\* value, every other key of the document it started from with its old value
\* and metadata.updated set to now; for a name without a file it starts from
\* the empty document, creates the name and writes no backup
C5_UpdateConfig ==
  [][IsCall("update_config") =>
       LET n == last'.name
           u == last'.updates.v
           before == IF n \in DOMAIN config_cache THEN CacheView[n].v
                     ELSE IF FirstFile(disk, n) # NoFile
                     THEN disk[FirstFile(disk, n)].data.v
                     ELSE <<>>
           after == disk'[ret'.v].data.v
       IN /\ ret'.t = "path"
          /\ ret'.v[1] = n
          /\ ret'.v \in DOMAIN disk'
          /\ CacheView'[n].v = after
          /\ DOMAIN after = DOMAIN before \cup DOMAIN u \cup {"_metadata"}
          /\ \A k \in DOMAIN u : after[k] = u[k]
          /\ \A k \in DOMAIN before \ (DOMAIN u \cup {"_metadata"}) : after[k] = before[k]
          /\ after["_metadata"].v["updated"] = Time(now')
          /\ FirstFile(disk, n) = NoFile =>
               /\ DOMAIN after = DOMAIN u \cup {"_metadata"}
               /\ DOMAIN disk' = DOMAIN disk \cup {ret'.v}]_vars

\* C5 happens: an update replaced the nested mapping a = {x: 1}, kept in the
\* backup, by a = {y: 2}
C5_Witness ==
  /\ last.op = "update_config"
  /\ last.create_backup
  /\ "a" \in DOMAIN last.updates.v
  /\ disk[ret.v].data.v["a"] = Dict([y |-> IntVal(2)])
  /\ \E f \in DOMAIN disk :
       /\ f[1] = backup_name(Store, last.name, "backup")
       /\ disk[f].data.v["a"] = Dict([x |-> IntVal(1)])

\* C6: after delete(name, backup) of an existing name, list() has not the
\* name and has name_deleted_<stamp>, which holds the body name had
C6_DeleteThenList ==
  [][(IsCall("delete_config") /\ last'.create_backup
        /\ FirstFile(disk, last'.name) # NoFile) =>
       LET n == last'.name
           listed == DOMAIN list_configs(Store').v
           backup == backup_name(Store', n, "deleted")
           body == IF n \in DOMAIN config_cache THEN CacheView[n]
                   ELSE disk[FirstFile(disk, n)].data
       IN /\ n \notin listed
          /\ backup \in listed
          /\ NonMetadata(disk'[FirstFile(disk', backup)].data) = NonMetadata(body)]_vars

\* C7: delete returns true exactly when it removed a file of the name, and a
\* load with the cache of a name left without a file raises FileNotFoundError
C7_DeleteEvicts ==
  [][IsCall("delete_config") =>
       LET n == last'.name
       IN /\ (ret' = Bool(TRUE)) <=>
               (\E f \in DOMAIN disk : f[1] = n /\ f \notin DOMAIN disk')
          /\ (ret' = Bool(TRUE) /\ FirstFile(disk', n) = NoFile) =>
               load_config(Store', n, TRUE).ret = FileNotFoundError]_vars

-----------------------------------------------------------------------------
(* C8 .. C10: history and merge                                            *)

\* the history of a name, empty for a name never saved with history
HistoryOf(hist, n) == IF n \in DOMAIN hist THEN hist[n] ELSE <<>>

\* the histories by value
HistoryView ==
  [n \in DOMAIN config_history |->
     [j \in DOMAIN config_history[n] |->
        [config_history[n][j] EXCEPT !.config = Dump(heap, @)]]]

\* C8: a history never holds more than 50 entries; a history-aware save puts
\* its entry last, behind the entries that were there, in their order, and
\* when that makes more than 50 the oldest is the one that goes
C8_HistoryBounded ==
  [][/\ \A n \in DOMAIN config_history' : Len(config_history'[n]) <= 50
     /\ (IsCall("save_config_with_validation") /\ ret'.t = "path") =>
          LET old == HistoryOf(config_history, last'.name)
              new == HistoryOf(config_history', last'.name)
              dropped == Len(old) + 1 - Len(new)
          IN /\ Len(new) = IF Len(old) < 50 THEN Len(old) + 1 ELSE 50
             /\ new[Len(new)].timestamp = Time(now')
             /\ \A i \in 1..(Len(new) - 1) :
                  new[i].timestamp = old[i + dropped].timestamp]_vars

\* C8 happens: 52 saves at 52 different times left the 50 entries of the
\* times 3 .. 52
C8_Witness ==
  /\ calls = 52
  /\ Len(config_history["n1"]) = 50
  /\ \A i \in 1..50 : config_history["n1"][i].timestamp = Time(i + 2)

\* C9: a history-aware save that returns appends one entry to the history of
\* its name and changes nothing else of the histories; no other call changes
\* any history
C9_HistoryFrame ==
  [][calls' = calls + 1 =>
       IF last'.op = "save_config_with_validation" /\ ret'.t = "path"
       THEN LET n == last'.name
                old == HistoryOf(HistoryView, n)
                new == HistoryOf(HistoryView', n)
            IN /\ Len(new) = Len(old) + 1
               /\ SubSeq(new, 1, Len(old)) = old
               /\ \A m \in DOMAIN HistoryView \ {n} : HistoryView'[m] = HistoryView[m]
       ELSE HistoryView' = HistoryView]_vars

\* the document a merge reads for a name: the cached one, else the first file
Loaded(n) ==
  IF n \in DOMAIN config_cache THEN CacheView[n]
  ELSE IF FirstFile(disk, n) # NoFile THEN disk[FirstFile(disk, n)].data
  ELSE None

\* deepMerge of two documents: mappings on both sides merge, else the later wins
RECURSIVE TreeMerge(_, _)
TreeMerge(base, update) ==
  Dict([k \in DOMAIN base.v \cup DOMAIN update.v |->
          IF k \notin DOMAIN update.v THEN base.v[k]
          ELSE IF k \in DOMAIN base.v /\ base.v[k].t = "dict" /\ update.v[k].t = "dict"
          THEN TreeMerge(base.v[k], update.v[k])
          ELSE update.v[k]])

\* override of two documents: the later input's top-level values win
TreeOverride(base, update) == Dict(update.v @@ base.v)

\* the inputs found, merged one after the other in list order
RECURSIVE MergedInOrder(_, _, _, _)
MergedInOrder(merged, docs, i, strategy) ==
  IF i > Len(docs) THEN merged
  ELSE MergedInOrder(IF docs[i] = None THEN merged
                     ELSE IF strategy = "deep_merge" THEN TreeMerge(merged, docs[i])
                     ELSE TreeOverride(merged, docs[i]),
                     docs, i + 1, strategy)

\* C10: the non-metadata content a deepMerge or override merge stores is the
\* inputs merged in list order: deepMerge merges mappings key by key and lets
\* the later input win elsewhere, override lets the later input's top-level
\* value win
C10_MergeInOrder ==
  [][(IsCall("merge_configs") /\ last'.strategy \in {"deep_merge", "override"}) =>
       LET docs == [i \in DOMAIN last'.names |-> Loaded(last'.names[i])]
       IN NonMetadata(disk'[ret'.v].data)
            = NonMetadata(MergedInOrder(Dict(<<>>), docs, 1, last'.strategy))]_vars

-----------------------------------------------------------------------------
(* C11: merge and missing inputs                                           *)

\* the names of a list that a load finds, in the order of the list
Found(config_names) ==
  SelectSeq(config_names, LAMBDA n : Loaded(n) # None)

-----------------------------------------------------------------------------
(* C12: the difference of two versions                                     *)

DiffParts == {"added", "removed", "modified", "unchanged"}

\* C12: diff raises exactly when one of its two timestamps is the timestamp
\* of no history entry of the name; when both are, whatever the snapshots
\* hold, it returns four mappings in which every key of the two snapshots
\* is in exactly one, and no other key is in any
C12_Diff ==
  [][IsCall("get_config_diff") =>
       LET history == HistoryOf(HistoryView, last'.name)
           m1 == {i \in DOMAIN history : history[i].timestamp = last'.version1}
           m2 == {i \in DOMAIN history : history[i].timestamp = last'.version2}
       IN /\ (ret'.t = "err") <=> (m1 = {} \/ m2 = {})
          /\ (m1 # {} /\ m2 # {}) =>
               /\ IsRef(ret')
               /\ DOMAIN Dump(heap', ret').v = DiffParts
               /\ \E i \in m1, j \in m2 :
                    LET keys == DOMAIN history[i].config.v \cup DOMAIN history[j].config.v
                        d == Dump(heap', ret').v
                    IN /\ \A part \in DiffParts : DOMAIN d[part].v \subseteq keys
                       /\ \A key \in keys :
                            Cardinality({part \in DiffParts : key \in DOMAIN d[part].v}) = 1]_vars

-----------------------------------------------------------------------------
(* C13 .. C17: the change watcher                                          *)

\* the poll threads that have not ended
Alive == {th \in DOMAIN threads : is_alive(th)}

\* the poll thread th has been started and has not ended
Running(th) == IF th \in DOMAIN threads THEN is_alive(th) ELSE FALSE

\* the poll thread th is at pc
AtPc(th, pc) == IF th \in DOMAIN threads THEN threads[th].pc = pc ELSE FALSE

\* C13: at most one poll thread of a store is alive at any moment
C13_OnePollTask == Cardinality(Alive) <= 1

\* C14: a poll thread that finds a watcher's file not newer than the time
\* the watcher has observed calls nothing and leaves the watcher as it is;
\* one that found it newer reloads the document from the file, calls the
\* callback and sets the observed time to the file's time, so that no
\* callback is called twice for one modification time of its watcher
C14_PollPass ==
  [][\A th \in DOMAIN threads :
       LET cur == threads[th].cur
           name == watcher_objects[cur].config_name
       IN /\ (threads[th].pc = "found" /\ threads'[th].pc \notin {"found", "changed"}) =>
               /\ invoked' = invoked
               /\ watcher_objects' = watcher_objects
          /\ (threads[th].pc = "changed" /\ threads'[th].pc # "changed") =>
               /\ FirstFile(disk, name) # NoFile
               /\ CacheView'[name] = disk[FirstFile(disk, name)].data
               /\ <<cur, threads[th].mtime>> \in DOMAIN invoked'
               /\ watcher_objects'[cur].last_modified = threads[th].mtime
               /\ \A key \in DOMAIN invoked' : invoked'[key] = 1]_vars

\* C15: when the poll thread has detected a modification of service_foo and
\* reports it, every subscriber that has the pattern service_* has had its
\* callback called exactly once for that modification, and no subscriber
\* whose patterns are all other_* has had it called
C15_NotifiedOnce ==
  [][\A th \in DOMAIN threads :
       (/\ threads[th].pc = "changed"
        /\ Len(change_log') > Len(change_log)
        /\ change_log'[Len(change_log')].config_name = "service_foo") =>
         \A id \in DOMAIN subscriptions :
           LET patterns == subscriptions[id].config_patterns
               key == <<id, "service_foo", threads[th].mtime>>
           IN /\ (\E i \in DOMAIN patterns : patterns[i] = "service_*") =>
                   (key \in DOMAIN notified' /\ notified'[key] = 1)
              /\ (\A i \in DOMAIN patterns : patterns[i] = "other_*") =>
                   key \notin DOMAIN notified']_vars

\* C16: when the reload or the callback of a watcher raises, the poll thread
\* goes on with the watchers that are left of its pass, and the caller's
\* threads see nothing of it; a pass that fails as a whole is followed by a
\* sleep and the next test of the while, which it reaches; and a poll thread
\* ends only at that test, when the stop event is set
C16_FailuresIsolated ==
  /\ \A th \in 1..MaxThreads : AtPc(th, "backoff") ~> AtPc(th, "while")
  /\ \A th \in 1..MaxThreads : AtPc(th, "for") ~> AtPc(th, "while")
  /\ [][\A th \in DOMAIN threads :
          /\ (/\ threads[th].pc = "changed"
              /\ threads'[th].pc # "changed"
              /\ \/ watcher_objects[threads[th].cur].callback = "raises"
                 \/ invoked' = invoked) =>
               /\ threads'[th].pc = "for"
               /\ threads'[th].i = threads[th].i
               /\ IteratedList(threads[th])' = IteratedList(threads[th])
               /\ last' = last
               /\ ret'.t = ret.t
               /\ callers' = callers
          /\ (threads[th].pc = "backoff" /\ threads'[th].pc # "backoff") =>
               threads'[th].pc = "while"
          /\ (threads[th].pc # "done" /\ threads'[th].pc = "done") =>
               (threads[th].pc = "while" /\ watch_stop_event)]_vars

\* C16 happens: in one pass over two watchers of n1 the first one's callback
\* raised and the second one's was called and its time advanced
C16_Witness ==
  /\ Len(threads) = 1
  /\ Len(watchers) = 2
  /\ watcher_objects[watchers[1]].callback = "raises"
  /\ watcher_objects[watchers[2]].callback = "returns"
  /\ \E mtime \in 1..MaxNow :
       /\ <<watchers[1], mtime>> \in DOMAIN invoked
       /\ invoked[<<watchers[1], mtime>>] = 1
       /\ <<watchers[2], mtime>> \in DOMAIN invoked
       /\ watcher_objects[watchers[2]].last_modified = mtime
       /\ watcher_objects[watchers[1]].last_modified < mtime
  /\ is_alive(1)

\* C17: stop_watching() without a name leaves the list of watchers empty and
\* the stop event set; a poll thread that tests its while with the event
\* set ends there and starts no pass; and as long as no later watch_config
\* clears the event, every poll thread alive ends
C17_StopTerminates ==
  /\ [][/\ (IsCall("stop_watching") /\ last'.name = NoName) =>
            (watchers' = <<>> /\ watch_stop_event')
        /\ \A th \in DOMAIN threads :
             (threads[th].pc = "while" /\ threads'[th].pc # "while" /\ watch_stop_event) =>
               threads'[th].pc = "done"]_vars
  /\ \A th \in 1..MaxThreads :
       (Running(th) /\ watch_stop_event) ~> (~Running(th) \/ ~watch_stop_event)

\* C17 happens: after stop_watching() the poll thread that was started has
\* ended and no watcher is left
C17_Witness ==
  /\ last.op = "stop_watching"
  /\ last.name = NoName
  /\ watchers = <<>>
  /\ watch_stop_event
  /\ threads # <<>>
  /\ \A th \in DOMAIN threads : ~is_alive(th)
  /\ invoked # <<>>

-----------------------------------------------------------------------------
(* C18 .. C20: the service registry                                        *)

\* the records of the registry by value, in the order of the dict
Records == [i \in DOMAIN services |-> asdict(metadata_objects, services[i])]

\* the names that are keys of self.services
Registered == {services[i].name : i \in DOMAIN services}

\* the records of the sequence recs whose name is not name
Others(recs, name) == SelectSeq(recs, LAMBDA x : x.name # name)

\* the content of a metadata argument as the call finds it
Given(metadata) ==
  IF metadata.t = "dict" THEN metadata.v
  ELSE IF metadata.t = "ref" THEN metadata_objects[metadata.v]
  ELSE <<>>

\* C18: register_service returns True; afterwards exactly one record has
\* the name, with the host, port, type, version, health endpoint and
\* metadata of the call, status active, and registered_at and
\* last_heartbeat read from the clock during the call; the other records
\* are as they were, and the file has been written with all the records
C18_Register ==
  [][IsCall("register_service") =>
       LET name == last'.name
           info == last'.info
       IN /\ ret' = Bool(TRUE)
          /\ Cardinality({i \in DOMAIN Records' : Records'[i].name = name}) = 1
          /\ \A i \in DOMAIN Records' :
               Records'[i].name = name =>
                 /\ Records'[i].host = info.host
                 /\ Records'[i].port = info.port
                 /\ Records'[i].service_type = info.service_type
                 /\ Records'[i].version = info.version
                 /\ Records'[i].health_endpoint = info.health_endpoint
                 /\ Records'[i].status = "active"
                 /\ Records'[i].metadata.t = "dict"
                 /\ DOMAIN Records'[i].metadata.v = DOMAIN Given(last'.metadata)
                 /\ \A k \in DOMAIN Given(last'.metadata) :
                      Records'[i].metadata.v[k] = Given(last'.metadata)[k]
                 /\ Records'[i].registered_at.t = "time"
                 /\ Records'[i].registered_at.v \in now..now'
                 /\ Records'[i].last_heartbeat.t = "time"
                 /\ Records'[i].last_heartbeat.v \in now..now'
          /\ Others(Records', name) = Others(Records, name)
          /\ saves' = saves + 1
          /\ registry_file'.t = "file"
          /\ registry_file'.services = Records']_vars

\* a registration of a has replaced a record that was in maintenance, next
\* to the record of b, and the clock went on between its two readings
C18_Witness ==
  /\ calls = 1
  /\ last.op = "register_service"
  /\ last.name = "a"
  /\ Len(services) = 2
  /\ services[1].name = "a"
  /\ services[1].host = "h2"
  /\ services[1].status = "active"
  /\ services[1].registered_at = Time(1)
  /\ services[1].last_heartbeat = Time(2)
  /\ Records[1].metadata = Dict("k" :> IntVal(1))
  /\ Records[2] = Written("b", "active")

\* the metadata of a record after the patch has been merged into it
Merged(held, patch) ==
  IF DOMAIN patch = {} THEN held
  ELSE IF held.t = "dict" THEN Dict(patch @@ held.v)
  ELSE Dict(patch)

\* C19: heartbeat, update_service_status and unregister_service return
\* True when the name is a key of the registry and False when it is not;
\* for a name that is no key they leave the records and the file as they
\* are; heartbeat of a name that is a key sets last_heartbeat to the time
\* of the call and merges the patch into the metadata, and changes nothing
\* else of the record
C19_KnownName ==
  [][\A op \in {"heartbeat", "update_service_status", "unregister_service"} :
       IsCall(op) =>
         LET name == last'.name
             known == name \in Registered
         IN /\ ret' = Bool(known)
            /\ ~known =>
                 /\ services' = services
                 /\ metadata_objects' = metadata_objects
                 /\ registry_file' = registry_file
                 /\ saves' = saves
            /\ (known /\ op = "heartbeat") =>
                 \A i \in DOMAIN Records :
                   Records[i].name = name =>
                     Records'[i] =
                       [Records[i] EXCEPT
                          !.last_heartbeat = Time(now),
                          !.metadata = Merged(@, Given(last'.metadata))]]_vars

\* the records that have a last heartbeat older than the timeout at the
\* time of the call
Expired ==
  {i \in DOMAIN services :
     /\ services[i].last_heartbeat.t = "time"
     /\ now - services[i].last_heartbeat.v >= heartbeat_timeout + 1}

\* C20: cleanup_stale_services removes the records whose last heartbeat is
\* older than heartbeat_timeout and no other record (one whose age is the
\* timeout or less stays, and so does one without a last heartbeat), returns
\* how many it removed, and writes the file when it removed a record and
\* leaves the file alone when it removed none
C20_Cleanup ==
  [][IsCall("cleanup_stale_services") =>
       /\ Records' = SelectSeq(Records,
                               LAMBDA x : \A i \in Expired : x.name # services[i].name)
       /\ ret' = IntVal(Cardinality(Expired))
       /\ IF Expired # {}
          THEN /\ saves' = saves + 1
               /\ registry_file'.t = "file"
               /\ registry_file'.services = Records'
          ELSE /\ saves' = saves
               /\ registry_file' = registry_file]_vars

\* cleanup_stale_services has removed a record that was two ticks old and
\* kept one whose age is the timeout of one tick
C20_Witness ==
  /\ last.op = "cleanup_stale_services"
  /\ ret = IntVal(1)
  /\ heartbeat_timeout = 1
  /\ saves = 2
  /\ Len(services) = 1
  /\ services[1].name = "b"
  /\ services[1].last_heartbeat = Time(now - 1)
  /\ registry_file.services = Records

-----------------------------------------------------------------------------
(* C21 .. C23: reads of the registry, statuses, construction               *)

\* the record has a last heartbeat older than the timeout at time
Old(record, time) ==
  /\ record.last_heartbeat.t = "time"
  /\ time - record.last_heartbeat.v > heartbeat_timeout

\* C21: get_active_services, get_services_by_type and get_all_services
\* return no record whose last heartbeat is older than the timeout, and
\* get_registry_status counts none; a record that is not that old is in
\* get_all_services, in get_services_by_type of its type and, when it is
\* active, in get_active_services
C21_StaleAbsent ==
  [][/\ \A op \in {"get_active_services", "get_services_by_type", "get_all_services"} :
          IsCall(op) =>
            /\ \A i \in DOMAIN ret'.v : ~Old(ret'.v[i], now')
            /\ \A j \in DOMAIN Records :
                 (/\ ~Old(Records[j], now')
                  /\ op = "get_active_services" => Records[j].status = "active"
                  /\ op = "get_services_by_type" =>
                       Records[j].service_type = last'.service_type)
                 => \E i \in DOMAIN ret'.v : ret'.v[i] = Records[j]
     /\ IsCall("get_registry_status") =>
          ret'.total_services =
            Cardinality({j \in DOMAIN Records : ~Old(Records[j], now')})]_vars

\* C22: the status of every record of the registry is one of active,
\* inactive, maintenance and error
C22_StatusValues ==
  \A i \in DOMAIN services :
    services[i].status \in {"active", "inactive", "maintenance", "error"}

\* the file can be read and every record of it can be constructed
WellFormed(file) ==
  /\ file.t = "file"
  /\ \A i \in DOMAIN file.services :
       /\ \A f \in RequiredFields : f \in DOMAIN file.services[i]
       /\ \A f \in DOMAIN file.services[i] : f \in Fields

\* C23: a registry that has been constructed and not called yet is empty
\* when there is no file and when the file cannot be read or holds a
\* record that cannot be constructed, and otherwise holds the records of
\* the file, field by field (a field the file leaves out is None); and
\* register_service on it returns True and writes the file
C23_Construct ==
  /\ [](calls = 0 =>
         IF WellFormed(registry_file)
         THEN /\ Len(Records) = Len(registry_file.services)
              /\ \A i \in DOMAIN Records :
                   \A f \in Fields :
                     Records[i][f] = IF f \in DOMAIN registry_file.services[i]
                                     THEN registry_file.services[i][f] ELSE None
         ELSE services = <<>>)
  /\ [][IsCall("register_service") =>
          /\ ret' = Bool(TRUE)
          /\ saves' = saves + 1
          /\ registry_file'.t = "file"
          /\ registry_file'.services = Records'
          /\ \E i \in DOMAIN Records' : Records'[i].name = last'.name]_vars

\* a registry constructed on a file with a record that has no port
C23_Witness ==
  /\ calls = 0
  /\ registry_file.t = "file"
  /\ Len(registry_file.services) = 2
  /\ "port" \notin DOMAIN registry_file.services[2]
  /\ services = <<>>

-----------------------------------------------------------------------------
(* C24 .. C27: the bounded cache                                           *)

RECURSIVE Sum(_)
Sum(sizes) == IF sizes = <<>> THEN 0 ELSE Head(sizes) + Sum(Tail(sizes))

\* C24: the sizes of the entries of the cache add up to max_memory_bytes at
\* most, and there are max_entries entries at most
C24_CacheBounded ==
  /\ Sum([i \in DOMAIN cache |-> cache[i].size_bytes]) <= max_memory_bytes
  /\ Len(cache) <= max_entries

\* the keys of the cache, least recently used first
Resident == [i \in DOMAIN cache |-> cache[i].key]

\* the smaller of two numbers
Min(a, b) == IF a <= b THEN a ELSE b

\* C25: in a cache whose memory limit does not bind, after any gets and
\* puts the keys of the cache are the max_entries keys touched last (all
\* the keys put, when they are fewer), a hit and a put being a touch
C25_StrictLRU == Resident = LastN(recency, Min(max_entries, Len(recency)))

\* C26: get of a key of the cache returns the value of its entry, which is
\* not what get returns for a key that is none of the cache, adds one to
\* the access count of the entry and to the hits, and moves the entry to
\* the end; get of a key that is none of the cache adds one to the misses
\* and leaves the entries and their order
C26_Get ==
  [][IsCall("get") =>
       LET key == last'.key
           i == EntryIndex(cache, key)
       IN IF i # 0
          THEN /\ ret' = cache[i].value
               /\ ret' # get(Cache, "").ret
               /\ cache' = Append(SelectSeq(cache, LAMBDA e : e.key # key),
                                  [cache[i] EXCEPT !.access_count = @ + 1])
               /\ stats' = [stats EXCEPT !.hits = @ + 1]
          ELSE /\ cache' = cache
               /\ stats' = [stats EXCEPT !.misses = @ + 1]]_vars

\* what load_config(n) returns, by value
Loads(s, n) == Dump(load_config(s, n, TRUE).s.h, load_config(s, n, TRUE).ret)

\* C27: when a caller writes into the document its last call returned,
\* load_config of every name returns afterwards what it returned before
C27_NoWriteThrough ==
  [][last'.op = "caller_sets" => \A n \in Names : Loads(Store', n) = Loads(Store, n)]_vars

\* the documents of self.watchers, in order
Watched == [i \in DOMAIN watchers |-> watcher_objects[watchers[i]].config_name]

\* the patterns that name a document of the directory, in order
Existing(config_patterns) ==
  SelectSeq(config_patterns, LAMBDA p : FindConfigFile(disk, p) # None)

\* C28: subscribe returns True and leaves under the subscriber's id the one
\* subscription it made, leaving the other subscriptions; it adds one
\* watcher for each pattern that names a document of the directory, in
\* order, and none for a pattern that names no document; and a document is
\* in the change log only if a watcher of it was registered
C28_Subscribe ==
  /\ [][IsCall("subscribe_to_config_changes") =>
          LET id == last'.subscriber_id
          IN /\ ret' = Bool(TRUE)
             /\ DOMAIN subscriptions' = DOMAIN subscriptions \cup {id}
             /\ subscriptions'[id].subscriber_id = id
             /\ subscriptions'[id].config_patterns = last'.config_patterns
             /\ subscriptions'[id].callback_function = last'.callback_function
             /\ \A o \in DOMAIN subscriptions \ {id} : subscriptions'[o] = subscriptions[o]
             /\ Watched' = Watched \o Existing(last'.config_patterns)]_vars
  /\ [](\A i \in DOMAIN change_log :
          \E w \in DOMAIN watcher_objects :
            watcher_objects[w].config_name = change_log[i].config_name)

\* a second subscription under an id, the first having named no document
\* (the document is as it was, so the first call was no save), gave two
\* patterns, of which the second names a document
C28_Witness ==
  /\ last.op = "subscribe_to_config_changes"
  /\ last.config_patterns = <<"service_*", "service_foo">>
  /\ Watched = <<"service_foo">>
  /\ DOMAIN subscriptions = {last.subscriber_id}
  /\ calls = 2
  /\ disk[<<"service_foo", "json">>].data = HandWritten

\* C29: a step that detects a change appends one entry to the change log,
\* with the name of the document, the time and the type "modified"; every
\* subscription with a pattern that matches the name has its callback
\* called for that change and its last_notified set to the time, whatever
\* the callbacks of the other subscriptions do, and every other
\* subscription is left as it was and is not called
C29_Notify ==
  [][change_log' # change_log =>
       \E th \in DOMAIN threads :
         LET watcher == watcher_objects[threads[th].cur]
             key(id) == <<id, watcher.config_name, threads[th].mtime>>
         IN /\ threads[th].pc = "changed"
            /\ threads'[th] # threads[th]
            /\ change_log' = Append(change_log, [config_name |-> watcher.config_name,
                                                 changed_at |-> Time(now),
                                                 change_type |-> "modified"])
            /\ DOMAIN subscriptions' = DOMAIN subscriptions
            /\ \A id \in DOMAIN subscriptions :
                 IF matches_patterns(watcher.config_name, subscriptions[id].config_patterns)
                 THEN /\ subscriptions'[id] =
                           [subscriptions[id] EXCEPT !.last_notified = Time(now)]
                      /\ key(id) \in DOMAIN notified'
                      /\ notified'[key(id)] =
                           IF key(id) \in DOMAIN notified THEN 2 ELSE 1
                 ELSE /\ subscriptions'[id] = subscriptions[id]
                      /\ key(id) \in DOMAIN notified' <=> key(id) \in DOMAIN notified
                      /\ key(id) \in DOMAIN notified => notified'[key(id)] = notified[key(id)]]_vars

\* one change was detected with two matching subscriptions, of which one
\* has a callback that raises: both were called, and stamped after the time
\* they were made
C29_Witness ==
  /\ Len(change_log) = 1
  /\ DOMAIN subscriptions = {"s1", "s2"}
  /\ {subscriptions[id].callback_function : id \in {"s1", "s2"}} = {"raises", "returns"}
  /\ \A id \in {"s1", "s2"} :
       /\ subscriptions[id].last_notified = change_log[1].changed_at
       /\ subscriptions[id].last_notified # subscriptions[id].created_at
       /\ \E key \in DOMAIN notified : key[1] = id

\* the document is neither in the directory nor in the cache
NoConfig(config_name) ==
  FindConfigFile(disk, config_name) = None /\ config_name \notin DOMAIN config_cache

\* C30: load_config and get_service_config of a document that does not
\* exist, and get_service and get_service_url of a name that is not
\* registered, raise; get_global_config returns the default document when
\* there is no global document
C30_NotFound ==
  [][/\ IsCall("load_config") /\ NoConfig(last'.name) => ret' = FileNotFoundError
     /\ IsCall("get_service_config") /\ NoConfig("service_" \o last'.name) => ret'.t = "err"
     /\ (IsCall("get_service") \/ IsCall("get_service_url"))
          /\ ServiceIndex(services, last'.name) = 0 => ret'.t = "err"
     /\ IsCall("get_global_config") /\ NoConfig("global")
          => Dump(heap', ret') = DefaultGlobalConfig]_vars

-----------------------------------------------------------------------------
(* C31 .. C40                                                              *)

\* the JSON type of a value of a document
JsonType(value) ==
  CASE value.t = "int" -> "integer"
    [] value.t = "str" -> "string"
    [] value.t = "bool" -> "boolean"
    [] value.t = "dict" -> "object"
    [] value.t = "list" -> "array"
    [] OTHER -> "null"

\* the document misses a required field or has a field of another type
\* than the schema gives it
Misfits(data, schema) ==
  \/ \E field \in schema.required : field \notin DOMAIN data.v
  \/ \E field \in DOMAIN schema.properties \cap DOMAIN data.v :
       JsonType(data.v[field]) # schema.properties[field]

\* C31: save_config_with_validation of a document that misses a required
\* field of the schema, or has a field of another type than the schema
\* gives it, raises, and leaves the files, the cache and the histories
C31_Validation ==
  [][IsCall("save_config_with_validation") /\ Misfits(last'.data, last'.schema) =>
       /\ ret' = ValueError
       /\ disk' = disk
       /\ CacheView' = CacheView
       /\ HistoryView' = HistoryView]_vars

\* the sizes of the entries, in order
Sizes(entries) == [i \in DOMAIN entries |-> entries[i].size_bytes]

\* there is room for size_bytes more beside the entries
Room(entries, size_bytes) ==
  /\ Len(entries) < max_entries
  /\ Sum(Sizes(entries)) + size_bytes <= max_memory_bytes

\* C32: memory_usage is the sum of the sizes of the entries; put takes the
\* entry of its key away, then as few of the first entries as leave room
\* for the new one (all of them when none does), counts each as an
\* eviction, and adds the new entry at the end
C32_MemoryUsage ==
  /\ [](memory_usage = Sum(Sizes(cache)))
  /\ [][IsCall("put") =>
          LET without == SelectSeq(cache, LAMBDA e : e.key # last'.key)
              size_bytes == calculate_size(last'.value)
              left(k) == SubSeq(without, k + 1, Len(without))
              enough == {k \in 0..Len(without) :
                           k = Len(without) \/ Room(left(k), size_bytes)}
              k == CHOOSE k \in enough : \A j \in enough : k <= j
          IN /\ Len(cache') = Len(without) - k + 1
             /\ SubSeq(cache', 1, Len(cache') - 1) = left(k)
             /\ cache'[Len(cache')].key = last'.key
             /\ cache'[Len(cache')].value = last'.value
             /\ cache'[Len(cache')].size_bytes = size_bytes
             /\ stats'.evictions = stats.evictions + k]_vars

\* the fourth call, a put of k3 into a cache that is full with two entries,
\* took one entry away and left k1: the only eviction so far
C32_Witness ==
  /\ last.op = "put"
  /\ last.key = "k3"
  /\ max_entries = 2
  /\ Resident = <<"k1", "k3">>
  /\ stats = [hits |-> 0, misses |-> 0, evictions |-> 1, memory_evictions |-> 0]
  /\ calls = 4
  /\ memory_usage = cache[1].size_bytes + cache[2].size_bytes

\* the records a new ServiceRegistry holds that is constructed on the file
Reloaded(file) ==
  [i \in DOMAIN load_registry(file).services |->
     asdict(load_registry(file).objects, load_registry(file).services[i])]

\* register_service, or another call that changed the registry, returned
Mutated ==
  \/ IsCall("register_service")
  \/ /\ IsCall("unregister_service") \/ IsCall("heartbeat")
          \/ IsCall("update_service_status")
     /\ ret' = Bool(TRUE)
  \/ IsCall("cleanup_stale_services") /\ ret' # IntVal(0)

\* C33: when register_service, unregister_service, heartbeat or
\* update_service_status of a registered name, or a cleanup that removed a
\* record, has returned, the records of the file are the records of the
\* registry, and a registry constructed on the file holds the same records
C33_FileIsRegistry ==
  [][Mutated => /\ registry_file'.t = "file"
                /\ registry_file'.services = Records'
                /\ Reloaded(registry_file') = Records']_vars

\* the reads that do not sweep
PlainReads == {"get_service", "get_services_by_type", "find_service",
               "get_all_services", "get_service_url"}

\* C34: get_service, get_services_by_type, find_service, get_all_services
\* and get_service_url leave the records, the file and the number of saves
\* as they are, whatever the age of the records; heartbeat of a registered
\* name whose last heartbeat is older than the timeout returns True and
\* leaves the record with a last heartbeat that is not older
C34_LazySweep ==
  [][/\ (\E op \in PlainReads : IsCall(op)) =>
          /\ Records' = Records
          /\ registry_file' = registry_file
          /\ saves' = saves
     /\ IsCall("heartbeat") =>
          \A i \in DOMAIN Records :
            Records[i].name = last'.name /\ Old(Records[i], now) =>
              /\ ret' = Bool(TRUE)
              /\ \E j \in DOMAIN Records' : /\ Records'[j].name = last'.name
                                             /\ ~Old(Records'[j], now')]_vars

\* the watcher w is in self.watchers, its watch_config has returned, and
\* its document has the modification time mtime, later than the one the
\* watcher knows, for which its callback has not been called
Undelivered(w, mtime) ==
  /\ \E i \in DOMAIN watchers : watchers[i] = w
  /\ callers[1] = Idle
  /\ FindConfigFile(disk, watcher_objects[w].config_name) # None
  /\ disk[FindConfigFile(disk, watcher_objects[w].config_name).v].mtime = mtime
  /\ mtime > watcher_objects[w].last_modified
  /\ <<w, mtime>> \notin DOMAIN invoked

\* C35: a modification of the document of a watcher that is in
\* self.watchers is delivered to its callback sooner or later, unless the
\* watcher is removed or the document changes again
C35_Served ==
  \A w \in 1..MaxServeCalls, mtime \in 1..MaxNow :
    Undelivered(w, mtime) ~> ~Undelivered(w, mtime)

\* the watchers of self.watchers
Watching == {watchers[i] : i \in DOMAIN watchers}

\* C36: stop_watching(name) takes the watchers of name, and no other, out
\* of self.watchers, and a callback is called only for a watcher that is
\* in self.watchers
C36_StoppedIsSilent ==
  [][/\ IsCall("stop_watching") =>
          Watching' = {w \in Watching : watcher_objects[w].config_name # last'.name}
     /\ invoked' # invoked =>
          \E th \in DOMAIN threads : /\ threads[th].pc = "changed"
                                     /\ threads'[th] # threads[th]
                                     /\ threads[th].cur \in Watching]_vars

\* the files of the document n
FilesOf(d, n) == [f \in {g \in DOMAIN d : g[1] = n} |-> d[f]]

\* C37: merge_configs into a name that is none of its inputs leaves the
\* files of every input, and what load_config returns for it, as they were
C37_MergeFrame ==
  [][IsCall("merge_configs")
       /\ (\A i \in DOMAIN last'.names : last'.names[i] # last'.output) =>
       \A i \in DOMAIN last'.names :
         /\ FilesOf(disk', last'.names[i]) = FilesOf(disk, last'.names[i])
         /\ Loads(Store', last'.names[i]) = Loads(Store, last'.names[i])]_vars

\* the name has exactly one file in the directory
OneFile(d, n) == Cardinality(DOMAIN FilesOf(d, n)) = 1

\* C38: a load with use_cache = False that returns the body of the name's
\* file leaves the store such that a load with use_cache = True returns
\* that body too
C38_UncachedLoadRefreshes ==
  [][IsCall("load_config") /\ ~last'.use_cache /\ OneFile(disk, last'.name) =>
       /\ ret' # FileNotFoundError
       /\ NonMetadata(Dump(heap', ret'))
            = NonMetadata(disk[FirstFile(disk, last'.name)].data)
       /\ NonMetadata(Loads(Store', last'.name)) = NonMetadata(Dump(heap', ret'))]_vars

\* C39: no name has more than one file, and list_configs holds no name twice
C39_UniqueNames ==
  \A n \in DOMAIN list_configs(Store).v :
    /\ Cardinality(DOMAIN FilesOf(disk, n)) <= 1
    /\ list_configs(Store).v[n] <= 1

\* C40: the document an update stores has every top-level key of the
\* document that was on disk when the update began, with its value, unless
\* the updates name the key
C40_UpdateOfDisk ==
  [][IsCall("update_config") /\ OneFile(disk, last'.name) =>
       LET before == disk[FirstFile(disk, last'.name)].data.v
           after == disk'[ret'.v].data.v
       IN \A k \in DOMAIN before \ (DOMAIN last'.updates.v \cup {"_metadata"}) :
            k \in DOMAIN after /\ after[k] = before[k]]_vars

====
